---- MODULE Spec2Model ----
(***************************************************************************)
(* Model of the workout analytics engine (src/src/analyzer.py) and of the  *)
(* data model it consumes (src/src/models.py).                             *)
(*                                                                         *)
(* Representation choices:                                                 *)
(*   - a Python str is a sequence of one-character strings, so that        *)
(*     lower(), strip(), `in` and dictionary lookup are computed;          *)
(*   - a Python float that holds weight * (36 / (37 - reps)) is the exact  *)
(*     fraction [num, den]; comparisons cross-multiply and round(x, k) is  *)
(*     round-half-to-even on the fraction;                                 *)
(*   - a datetime.date is a record [year, month, day]; toordinal and       *)
(*     isoformat are computed from it;                                     *)
(*   - a dict is the sequence of its (key, value) entries in insertion     *)
(*     order, None is the string "None".                                   *)
(***************************************************************************)
EXTENDS Integers, Sequences, FiniteSets, TLC

VARIABLES
    workouts,   \* the loaded List[LiftingWorkout]
    activities, \* the loaded List[StravaActivity]
    call,       \* the calculator invoked last, with its arguments
    result,     \* the value that invocation returned
    raised      \* the exception that left the invocation, None when it returned

vars ==
    <<workouts, activities, call, result, raised>>

None ==
    "None"

\* None where a dict or a float (a fraction record) is expected
NoneDict ==
    [none |-> TRUE]

(***************************************************************************)
(* Bounds of the model                                                     *)
(***************************************************************************)
MaxWorkouts ==
    3
MaxExercises ==
    2
MaxOccurrences ==
    3
MaxActivities ==
    4
MaxWeight ==
    40
RepsMargin ==
    2

(***************************************************************************)
(* str                                                                     *)
(***************************************************************************)
ASCII_UPPERCASE ==
    <<"A","B","C","D","E","F","G","H","I","J","K","L","M",
      "N","O","P","Q","R","S","T","U","V","W","X","Y","Z">>

ASCII_LOWERCASE ==
    <<"a","b","c","d","e","f","g","h","i","j","k","l","m",
      "n","o","p","q","r","s","t","u","v","w","x","y","z">>

WHITESPACE ==
    {" ", "\t", "\n", "\r", "\f"}

char_lower(c) ==
    IF \E i \in 1..26 : ASCII_UPPERCASE[i] = c
    THEN ASCII_LOWERCASE[CHOOSE i \in 1..26 : ASCII_UPPERCASE[i] = c]
    ELSE c

char_upper(c) ==
    IF \E i \in 1..26 : ASCII_LOWERCASE[i] = c
    THEN ASCII_UPPERCASE[CHOOSE i \in 1..26 : ASCII_LOWERCASE[i] = c]
    ELSE c

\* str.lower()
str_lower(s) ==
    [i \in 1..Len(s) |-> char_lower(s[i])]

\* str.upper()
str_upper(s) ==
    [i \in 1..Len(s) |-> char_upper(s[i])]

\* the string as typed, nothing dropped
str_strip_as_typed(s) ==
    s

\* str.strip(): drops the leading and the trailing whitespace
str_strip(s) ==
    LET keep == {i \in 1..Len(s) : s[i] \notin WHITESPACE}
        first == CHOOSE i \in keep : \A j \in keep : i <= j
        last == CHOOSE i \in keep : \A j \in keep : j <= i
    IN  IF keep = {} THEN <<>> ELSE SubSeq(s, first, last)

\* sub in s
str_contains(s, sub) ==
    \E i \in 0..(Len(s) - Len(sub)) : SubSeq(s, i + 1, i + Len(sub)) = sub

(***************************************************************************)
(* Exercise name normalization                                             *)
(***************************************************************************)
EXERCISE_ALIASES ==
    (<<"f","l","a","t"," ","b","b"," ","b","e","n","c","h"," ","p","r","e","s","s">>
       :> <<"b","e","n","c","h"," ","p","r","e","s","s">>)
 @@ (<<"f","l","a","t"," ","b","b"," ","b","e","n","c","h">>
       :> <<"b","e","n","c","h"," ","p","r","e","s","s">>)
 @@ (<<"b","b"," ","b","e","n","c","h"," ","p","r","e","s","s">>
       :> <<"b","e","n","c","h"," ","p","r","e","s","s">>)
 @@ (<<"b","b"," ","b","e","n","c","h">>
       :> <<"b","e","n","c","h"," ","p","r","e","s","s">>)
 @@ (<<"b","a","r","b","e","l","l"," ","b","e","n","c","h">>
       :> <<"b","e","n","c","h"," ","p","r","e","s","s">>)
 @@ (<<"b","a","r","b","e","l","l"," ","b","e","n","c","h"," ","p","r","e","s","s">>
       :> <<"b","e","n","c","h"," ","p","r","e","s","s">>)
 @@ (<<"f","l","a","t"," ","b","e","n","c","h">>
       :> <<"b","e","n","c","h"," ","p","r","e","s","s">>)
 @@ (<<"f","l","a","t"," ","b","e","n","c","h"," ","p","r","e","s","s">>
       :> <<"b","e","n","c","h"," ","p","r","e","s","s">>)
 @@ (<<"p","a","u","s","e","d"," ","b","b"," ","b","e","n","c","h">>
       :> <<"b","e","n","c","h"," ","p","r","e","s","s">>)
 @@ (<<"p","a","u","s","e","d"," ","b","e","n","c","h">>
       :> <<"b","e","n","c","h"," ","p","r","e","s","s">>)
 @@ (<<"f","l","a","t"," ","d","b"," ","p","r","e","s","s">>
       :> <<"d","b"," ","b","e","n","c","h"," ","p","r","e","s","s">>)
 @@ (<<"f","l","a","t"," ","d","b"," ","b","e","n","c","h">>
       :> <<"d","b"," ","b","e","n","c","h"," ","p","r","e","s","s">>)
 @@ (<<"f","l","a","t"," ","d","b"," ","b","e","n","c","h"," ","p","r","e","s","s">>
       :> <<"d","b"," ","b","e","n","c","h"," ","p","r","e","s","s">>)
 @@ (<<"d","b"," ","f","l","a","t"," ","b","e","n","c","h">>
       :> <<"d","b"," ","b","e","n","c","h"," ","p","r","e","s","s">>)
 @@ (<<"d","b"," ","p","r","e","s","s">>
       :> <<"d","b"," ","b","e","n","c","h"," ","p","r","e","s","s">>)
 @@ (<<"d","b"," ","b","e","n","c","h">>
       :> <<"d","b"," ","b","e","n","c","h"," ","p","r","e","s","s">>)
 @@ (<<"d","u","m","b","b","e","l","l"," ","b","e","n","c","h">>
       :> <<"d","b"," ","b","e","n","c","h"," ","p","r","e","s","s">>)
 @@ (<<"d","b"," ","i","n","c","l","i","n","e"," ","p","r","e","s","s">>
       :> <<"i","n","c","l","i","n","e"," ","d","b"," ","p","r","e","s","s">>)
 @@ (<<"i","n","c","l","i","n","e"," ","d","b"," ","b","e","n","c","h">>
       :> <<"i","n","c","l","i","n","e"," ","d","b"," ","p","r","e","s","s">>)
 @@ (<<"i","n","c","l","i","n","e"," ","d","b"," ","b","e","n","c","h"," ","p","r","e","s","s">>
       :> <<"i","n","c","l","i","n","e"," ","d","b"," ","p","r","e","s","s">>)
 @@ (<<"i","n","c","l","i","n","e"," ","c","h","e","s","t"," ","p","r","e","s","s"," ","m","a","c","h","i","n","e">>
       :> <<"i","n","c","l","i","n","e"," ","p","r","e","s","s">>)
 @@ (<<"b","b"," ","s","q","u","a","t">>
       :> <<"s","q","u","a","t">>)
 @@ (<<"b","a","r","b","e","l","l"," ","s","q","u","a","t">>
       :> <<"s","q","u","a","t">>)
 @@ (<<"b","a","c","k"," ","s","q","u","a","t">>
       :> <<"s","q","u","a","t">>)
 @@ (<<"b","b"," ","b","a","c","k"," ","s","q","u","a","t">>
       :> <<"s","q","u","a","t">>)
 @@ (<<"s","u","m","o"," ","b","b"," ","s","q","u","a","t">>
       :> <<"s","u","m","o"," ","s","q","u","a","t">>)
 @@ (<<"s","u","m","o"," ","s","q","u","a","t">>
       :> <<"s","u","m","o"," ","s","q","u","a","t">>)
 @@ (<<"c","o","n","v","e","n","t","i","o","n","a","l"," ","d","e","a","d","l","i","f","t">>
       :> <<"d","e","a","d","l","i","f","t">>)
 @@ (<<"b","b"," ","d","e","a","d","l","i","f","t">>
       :> <<"d","e","a","d","l","i","f","t">>)
 @@ (<<"b","a","r","b","e","l","l"," ","d","e","a","d","l","i","f","t">>
       :> <<"d","e","a","d","l","i","f","t">>)
 @@ (<<"s","u","m","o"," ","d","e","a","d","l","i","f","t">>
       :> <<"s","u","m","o"," ","d","e","a","d","l","i","f","t">>)
 @@ (<<"r","d","l">>
       :> <<"r","o","m","a","n","i","a","n"," ","d","e","a","d","l","i","f","t">>)
 @@ (<<"d","b"," ","r","d","l">>
       :> <<"d","b"," ","r","o","m","a","n","i","a","n"," ","d","e","a","d","l","i","f","t">>)
 @@ (<<"m","i","l","i","t","a","r","y"," ","p","r","e","s","s">>
       :> <<"o","v","e","r","h","e","a","d"," ","p","r","e","s","s">>)
 @@ (<<"o","h","p">>
       :> <<"o","v","e","r","h","e","a","d"," ","p","r","e","s","s">>)
 @@ (<<"b","b"," ","o","v","e","r","h","e","a","d"," ","p","r","e","s","s">>
       :> <<"o","v","e","r","h","e","a","d"," ","p","r","e","s","s">>)
 @@ (<<"b","b"," ","m","i","l","i","t","a","r","y"," ","p","r","e","s","s">>
       :> <<"o","v","e","r","h","e","a","d"," ","p","r","e","s","s">>)
 @@ (<<"s","t","a","n","d","i","n","g"," ","p","r","e","s","s">>
       :> <<"o","v","e","r","h","e","a","d"," ","p","r","e","s","s">>)
 @@ (<<"d","b"," ","s","h","o","u","l","d","e","r"," ","p","r","e","s","s">>
       :> <<"d","b"," ","o","v","e","r","h","e","a","d"," ","p","r","e","s","s">>)
 @@ (<<"s","e","a","t","e","d"," ","s","h","o","u","l","d","e","r"," ","p","r","e","s","s">>
       :> <<"d","b"," ","o","v","e","r","h","e","a","d"," ","p","r","e","s","s">>)
 @@ (<<"d","b"," ","o","h","p">>
       :> <<"d","b"," ","o","v","e","r","h","e","a","d"," ","p","r","e","s","s">>)
 @@ (<<"b","b"," ","r","o","w">>
       :> <<"b","a","r","b","e","l","l"," ","r","o","w">>)
 @@ (<<"b","b","-","r","o","w">>
       :> <<"b","a","r","b","e","l","l"," ","r","o","w">>)
 @@ (<<"b","b","-","u","n","d","e","r","h","a","n","d"," ","r","o","w">>
       :> <<"b","a","r","b","e","l","l"," ","r","o","w">>)
 @@ (<<"u","n","d","e","r","h","a","n","d"," ","b","b"," ","r","o","w">>
       :> <<"b","a","r","b","e","l","l"," ","r","o","w">>)
 @@ (<<"b","e","n","t"," ","o","v","e","r"," ","r","o","w">>
       :> <<"b","a","r","b","e","l","l"," ","r","o","w">>)
 @@ (<<"p","e","n","d","l","a","y"," ","r","o","w">>
       :> <<"b","a","r","b","e","l","l"," ","r","o","w">>)
 @@ (<<"t","-","b","a","r"," ","r","o","w">>
       :> <<"t","-","b","a","r"," ","r","o","w">>)
 @@ (<<"c","h","e","s","t"," ","s","u","p","p","o","r","t","e","d"," ","d","b"," ","r","o","w","s">>
       :> <<"d","b"," ","r","o","w">>)
 @@ (<<"c","h","e","s","t"," ","s","u","p","p","o","r","t","e","d"," ","d","b"," ","r","o","w">>
       :> <<"d","b"," ","r","o","w">>)
 @@ (<<"c","a","b","l","e"," ","r","o","w">>
       :> <<"c","a","b","l","e"," ","r","o","w">>)
 @@ (<<"s","e","a","t","e","d"," ","c","a","b","l","e"," ","r","o","w">>
       :> <<"c","a","b","l","e"," ","r","o","w">>)

KEY_COMPOUND_LIFTS ==
    { <<"b","e","n","c","h"," ","p","r","e","s","s">>,
      <<"d","b"," ","b","e","n","c","h"," ","p","r","e","s","s">>,
      <<"s","q","u","a","t">>,
      <<"h","a","c","k"," ","s","q","u","a","t">>,
      <<"d","e","a","d","l","i","f","t">>,
      <<"s","u","m","o"," ","d","e","a","d","l","i","f","t">>,
      <<"r","o","m","a","n","i","a","n"," ","d","e","a","d","l","i","f","t">> }

BIG_THREE_LIFTS ==
    { <<"b","e","n","c","h"," ","p","r","e","s","s">>,
      <<"s","q","u","a","t">>,
      <<"d","e","a","d","l","i","f","t">> }

\* the slip EXERCISE_ALIASES.get(name_lower, name)
normalize_exercise_name_raw_default(name) ==
    LET name_lower == str_strip(str_lower(name))
    IN  IF name_lower \in DOMAIN EXERCISE_ALIASES
        THEN EXERCISE_ALIASES[name_lower]
        ELSE name

\* the slip EXERCISE_ALIASES.get(name, name_lower): the name as typed is looked up
normalize_exercise_name_raw_key(name) ==
    LET name_lower == str_strip(str_lower(name))
    IN  IF name \in DOMAIN EXERCISE_ALIASES
        THEN EXERCISE_ALIASES[name]
        ELSE name_lower

\* dict.get(key, default) on a dict held as a function
normalize_exercise_name(name) ==
    LET name_lower == str_strip(str_lower(name))
    IN  IF name_lower \in DOMAIN EXERCISE_ALIASES
        THEN EXERCISE_ALIASES[name_lower]
        ELSE name_lower

is_key_compound_lift(name) ==
    LET normalized == normalize_exercise_name(name)
    IN  normalized \in KEY_COMPOUND_LIFTS

(***************************************************************************)
(* float arithmetic on exact fractions                                     *)
(***************************************************************************)
Frac(n, d) ==
    [num |-> n, den |-> d]

\* a > b for fractions with positive denominators
frac_gt(a, b) ==
    a.num * b.den > b.num * a.den

frac_eq(a, b) ==
    a.num * b.den = b.num * a.den

\* round(n / d) to the nearest integer, ties to even; n >= 0, d > 0
round_half_even(n, d) ==
    LET q == n \div d
        r == n % d
    IN  IF 2 * r < d THEN q
        ELSE IF 2 * r > d THEN q + 1
        ELSE IF q % 2 = 0 THEN q ELSE q + 1

\* round(x, 1), as a number of tenths
round1(x) ==
    round_half_even(10 * x.num, x.den)

\* round(x, 2), as a number of hundredths
round2(x) ==
    round_half_even(100 * x.num, x.den)

(***************************************************************************)
(* Estimated one-rep max                                                   *)
(***************************************************************************)
\* the slip reps >= 36
calculate_estimated_1rm_off_by_one(weight, reps) ==
    IF reps <= 0 \/ reps >= 36
    THEN Frac(weight, 1)
    ELSE Frac(weight * 36, 37 - reps)

calculate_estimated_1rm(weight, reps) ==
    IF reps <= 0 \/ reps >= 37
    THEN Frac(weight, 1)
    ELSE Frac(weight * 36, 37 - reps)

(***************************************************************************)
(* datetime.date                                                           *)
(***************************************************************************)
Date(y, m, d) ==
    [year |-> y, month |-> m, day |-> d]

days_before_year(year) ==
    LET y == year - 1
    IN  y * 365 + (y \div 4) - (y \div 100) + (y \div 400)

RECURSIVE days_before_month(_, _)
days_before_month(year, month) ==
    LET DAYS_IN_MONTH ==
            <<31, 28, 31, 30, 31, 30, 31, 31, 30, 31, 30, 31>>
        is_leap(y) ==
            y % 4 = 0 /\ (y % 100 # 0 \/ y % 400 = 0)
    IN  IF month = 1 THEN 0
        ELSE days_before_month(year, month - 1) + DAYS_IN_MONTH[month - 1]
             + (IF month - 1 = 2 /\ is_leap(year) THEN 1 ELSE 0)

\* date.toordinal(); date - timedelta(days=n) and date comparison go through it
date_toordinal(d) ==
    days_before_year(d.year) + days_before_month(d.year, d.month) + d.day

DIGITS ==
    <<"0", "1", "2", "3", "4", "5", "6", "7", "8", "9">>

\* the decimal digits of n, zero-padded to width characters
RECURSIVE zero_padded(_, _)
zero_padded(n, width) ==
    IF width = 0 THEN <<>>
    ELSE Append(zero_padded(n \div 10, width - 1), DIGITS[(n % 10) + 1])

\* date.isoformat(): "YYYY-MM-DD"
date_isoformat(d) ==
    zero_padded(d.year, 4) \o <<"-">> \o zero_padded(d.month, 2)
        \o <<"-">> \o zero_padded(d.day, 2)

\* the characters of code points 32 to 126, in order; the backquote (96)
\* is left out, its place held by the empty string
ASCII_32_126 ==
    <<
       " ", "!", "\"", "#", "$", "%", "&", "'", "(", ")", "*", "+",
       ",", "-", ".", "/", "0", "1", "2", "3", "4", "5", "6", "7",
       "8", "9", ":", ";", "<", "=", ">", "?", "@", "A", "B", "C",
       "D", "E", "F", "G", "H", "I", "J", "K", "L", "M", "N", "O",
       "P", "Q", "R", "S", "T", "U", "V", "W", "X", "Y", "Z", "[",
       "\\", "]", "^", "_", "",
       "a", "b", "c", "d", "e", "f", "g", "h", "i", "j", "k", "l",
       "m", "n", "o", "p", "q", "r", "s", "t", "u", "v", "w", "x",
       "y", "z", "{", "|", "}", "~" >>

\* ord(c) for a tab and the printable ASCII characters (but the backquote)
char_ord(c) ==
    IF c = "\t" THEN 9
    ELSE 31 + (CHOOSE i \in 1..Len(ASCII_32_126) : ASCII_32_126[i] = c)

\* a > b on str: lexicographic by code point
RECURSIVE str_gt(_, _)
str_gt(a, b) ==
    IF a = <<>> THEN FALSE
    ELSE IF b = <<>> THEN TRUE
    ELSE IF Head(a) = Head(b) THEN str_gt(Tail(a), Tail(b))
    ELSE char_ord(Head(a)) > char_ord(Head(b))

(***************************************************************************)
(* dict (insertion ordered) and sorted()                                   *)
(***************************************************************************)
dict_has(d, k) ==
    \E i \in 1..Len(d) : d[i].key = k

dict_get(d, k) ==
    d[CHOOSE i \in 1..Len(d) : d[i].key = k].value

\* d[k] = v: a new key is appended, an existing key keeps its position
dict_set(d, k, v) ==
    IF dict_has(d, k)
    THEN [i \in 1..Len(d) |-> IF d[i].key = k THEN [key |-> k, value |-> v] ELSE d[i]]
    ELSE Append(d, [key |-> k, value |-> v])

dict_values(d) ==
    [i \in 1..Len(d) |-> d[i].value]

\* the items left in the order of insertion
sorted_reverse_as_inserted(items, keys) ==
    items

\* sorted(items, key=..., reverse=True) where keys[i] is the key of items[i]:
\* descending and stable (equal keys keep their original order)
sorted_reverse(items, keys) ==
    LET n == Len(items)
        before(i) == {j \in 1..n : keys[j] > keys[i] \/ (keys[j] = keys[i] /\ j < i)}
    IN  [r \in 1..n |-> items[CHOOSE i \in 1..n : Cardinality(before(i)) = r - 1]]

(***************************************************************************)
(* Data model                                                              *)
(***************************************************************************)
Exercise(name, weight_lbs, reps, rpe) ==
    [name |-> name, weight_lbs |-> weight_lbs, reps |-> reps, rpe |-> rpe]

LiftingWorkout(date, muscle_groups, exercises) ==
    [date |-> date, muscle_groups |-> muscle_groups, exercises |-> exercises,
     pushups |-> NoneDict, pullups |-> NoneDict, bodyweight_lbs |-> NoneDict]

\* the traversal "for workout in workouts: for exercise in workout.exercises"
RECURSIVE Occurrences(_)
Occurrences(ws) ==
    IF ws = <<>> THEN <<>>
    ELSE [i \in 1..Len(Head(ws).exercises) |->
             [workout |-> Head(ws), exercise |-> Head(ws).exercises[i]]]
         \o Occurrences(Tail(ws))

(***************************************************************************)
(* Personal records                                                        *)
(***************************************************************************)
\* the slip of keying the records by the name as typed
RECURSIVE personal_records_loop_raw_name(_, _)
personal_records_loop_raw_name(occs, exercise_maxes) ==
    IF occs = <<>> THEN exercise_maxes
    ELSE LET workout == Head(occs).workout
             exercise == Head(occs).exercise
             name == exercise.name
         IN  personal_records_loop_raw_name(Tail(occs),
                 IF \/ ~dict_has(exercise_maxes, name)
                    \/ exercise.weight_lbs > dict_get(exercise_maxes, name)[1]
                 THEN dict_set(exercise_maxes, name,
                          <<exercise.weight_lbs, exercise.reps,
                            date_isoformat(workout.date)>>)
                 ELSE exercise_maxes)

\* the slip exercise.weight_lbs >= current[0]
RECURSIVE personal_records_loop_ge(_, _)
personal_records_loop_ge(occs, exercise_maxes) ==
    IF occs = <<>> THEN exercise_maxes
    ELSE LET workout == Head(occs).workout
             exercise == Head(occs).exercise
             name == str_strip(str_lower(exercise.name))
         IN  personal_records_loop_ge(Tail(occs),
                 IF \/ ~dict_has(exercise_maxes, name)
                    \/ exercise.weight_lbs >= dict_get(exercise_maxes, name)[1]
                 THEN dict_set(exercise_maxes, name,
                          <<exercise.weight_lbs, exercise.reps,
                            date_isoformat(workout.date)>>)
                 ELSE exercise_maxes)

RECURSIVE personal_records_loop(_, _)
personal_records_loop(occs, exercise_maxes) ==
    IF occs = <<>> THEN exercise_maxes
    ELSE LET workout == Head(occs).workout
             exercise == Head(occs).exercise
             name == str_strip(str_lower(exercise.name))
         IN  personal_records_loop(Tail(occs),
                 IF \/ ~dict_has(exercise_maxes, name)
                    \/ exercise.weight_lbs > dict_get(exercise_maxes, name)[1]
                 THEN dict_set(exercise_maxes, name,
                          <<exercise.weight_lbs, exercise.reps,
                            date_isoformat(workout.date)>>)
                 ELSE exercise_maxes)

calculate_personal_records(ws) ==
    LET exercise_maxes == personal_records_loop(Occurrences(ws), <<>>)
        prs == [i \in 1..Len(exercise_maxes) |->
                   [exercise |-> exercise_maxes[i].key,
                    max_weight |-> exercise_maxes[i].value[1],
                    reps |-> exercise_maxes[i].value[2],
                    date |-> exercise_maxes[i].value[3]]]
    IN  sorted_reverse(prs, [i \in 1..Len(prs) |-> prs[i].max_weight])

(***************************************************************************)
(* Rep-range records                                                       *)
(***************************************************************************)
\* x > tenths / 10: a float against a value that round(_, 1) produced
gt_rounded1(x, tenths) ==
    x.num * 10 > tenths * x.den

RECURSIVE rep_range_records_loop(_, _, _, _, _)
rep_range_records_loop(occs, min_reps, max_reps, key_lifts_only, exercise_records) ==
    IF occs = <<>> THEN exercise_records
    ELSE LET workout == Head(occs).workout
             exercise == Head(occs).exercise
             normalized_name == normalize_exercise_name(exercise.name)
             estimated_1rm == calculate_estimated_1rm(exercise.weight_lbs, exercise.reps)
             in_range == min_reps <= exercise.reps /\ exercise.reps <= max_reps
             skipped == key_lifts_only /\ ~is_key_compound_lift(exercise.name)
         IN  rep_range_records_loop(Tail(occs), min_reps, max_reps, key_lifts_only,
                 IF /\ in_range
                    /\ ~skipped
                    /\ \/ ~dict_has(exercise_records, normalized_name)
                       \/ gt_rounded1(estimated_1rm,
                              dict_get(exercise_records, normalized_name).estimated_1rm)
                 THEN dict_set(exercise_records, normalized_name,
                          [exercise |-> normalized_name,
                           weight |-> exercise.weight_lbs,
                           reps |-> exercise.reps,
                           rpe |-> exercise.rpe,
                           date |-> date_isoformat(workout.date),
                           estimated_1rm |-> round1(estimated_1rm)])
                 ELSE exercise_records)

calculate_rep_range_records(ws, min_reps, max_reps, key_lifts_only) ==
    LET exercise_records ==
            rep_range_records_loop(Occurrences(ws), min_reps, max_reps,
                                   key_lifts_only, <<>>)
        records == dict_values(exercise_records)
    IN  sorted_reverse(records, [i \in 1..Len(records) |-> records[i].estimated_1rm])

(***************************************************************************)
(* Key-lift records                                                        *)
(***************************************************************************)
\* rep_ranges, in the order the dict is iterated
REP_RANGES ==
    << [name |-> "strength", min_r |-> 1, max_r |-> 5],
       [name |-> "hypertrophy", min_r |-> 6, max_r |-> 10],
       [name |-> "endurance", min_r |-> 11, max_r |-> 20] >>

RECENT_DAYS ==
    14

\* the first range of rep_ranges that holds reps (the loop breaks on it), 0 if none
range_index(reps) ==
    IF \E i \in 1..Len(REP_RANGES) : REP_RANGES[i].min_r <= reps /\ reps <= REP_RANGES[i].max_r
    THEN CHOOSE i \in 1..Len(REP_RANGES) :
             /\ REP_RANGES[i].min_r <= reps /\ reps <= REP_RANGES[i].max_r
             /\ \A j \in 1..(i - 1) :
                    ~(REP_RANGES[j].min_r <= reps /\ reps <= REP_RANGES[j].max_r)
    ELSE 0

\* lift_records[name]: a defaultdict(dict) creates the entry on first access
defaultdict_get(d, k) ==
    IF dict_has(d, k) THEN dict_get(d, k) ELSE <<>>

\* one pass of the loop body: the state is [lift_records, recent_lifts]
key_lift_step(st, occ, two_weeks_ago) ==
    LET workout == occ.workout
        exercise == occ.exercise
        normalized_name == normalize_exercise_name(exercise.name)
        estimated_1rm == calculate_estimated_1rm(exercise.weight_lbs, exercise.reps)
        r == range_index(exercise.reps)
        range_name == REP_RANGES[r].name
        ranges == defaultdict_get(st.lift_records, normalized_name)
        lift_records ==
            IF r = 0 THEN st.lift_records
            ELSE IF \/ ~dict_has(ranges, range_name)
                    \/ gt_rounded1(estimated_1rm, dict_get(ranges, range_name).estimated_1rm)
                 THEN dict_set(st.lift_records, normalized_name,
                          dict_set(ranges, range_name,
                              [weight |-> exercise.weight_lbs,
                               reps |-> exercise.reps,
                               rpe |-> exercise.rpe,
                               date |-> date_isoformat(workout.date),
                               estimated_1rm |-> round1(estimated_1rm)]))
                 ELSE dict_set(st.lift_records, normalized_name, ranges)
        recent_lifts ==
            IF /\ date_toordinal(workout.date) >= two_weeks_ago
               /\ \/ ~dict_has(st.recent_lifts, normalized_name)
                  \/ str_gt(date_isoformat(workout.date),
                            dict_get(st.recent_lifts, normalized_name).date)
            THEN dict_set(st.recent_lifts, normalized_name,
                     [weight |-> exercise.weight_lbs,
                      reps |-> exercise.reps,
                      rpe |-> exercise.rpe,
                      date |-> date_isoformat(workout.date)])
            ELSE st.recent_lifts
    IN  IF normalized_name \notin BIG_THREE_LIFTS THEN st
        ELSE [lift_records |-> lift_records, recent_lifts |-> recent_lifts]

RECURSIVE key_lift_loop(_, _, _)
key_lift_loop(occs, two_weeks_ago, st) ==
    IF occs = <<>> THEN st
    ELSE key_lift_loop(Tail(occs), two_weeks_ago,
                       key_lift_step(st, Head(occs), two_weeks_ago))

\* dict.get(key): None when the key is missing
dict_get_or_none(d, k) ==
    IF dict_has(d, k) THEN dict_get(d, k) ELSE NoneDict

\* the best estimated 1RM across ranges.values(), starting from 0
RECURSIVE best_e1rm_loop(_, _)
best_e1rm_loop(range_values, best_e1rm) ==
    IF range_values = <<>> THEN best_e1rm
    ELSE best_e1rm_loop(Tail(range_values),
             IF Head(range_values).estimated_1rm > best_e1rm
             THEN Head(range_values).estimated_1rm
             ELSE best_e1rm)

\* now is datetime.now().date()
calculate_key_lift_prs(ws, now) ==
    LET two_weeks_ago == date_toordinal(now) - RECENT_DAYS
        \* the results list built from the final state of the loop
        rows(st) ==
            [i \in 1..Len(st.lift_records) |->
                LET exercise_name == st.lift_records[i].key
                    ranges == st.lift_records[i].value
                IN  [exercise |-> exercise_name,
                     strength_pr |-> dict_get_or_none(ranges, "strength"),
                     hypertrophy_pr |-> dict_get_or_none(ranges, "hypertrophy"),
                     endurance_pr |-> dict_get_or_none(ranges, "endurance"),
                     recent |-> dict_get_or_none(st.recent_lifts, exercise_name),
                     best_estimated_1rm |-> best_e1rm_loop(dict_values(ranges), 0)]]
        ranked(results) ==
            sorted_reverse(results,
                [i \in 1..Len(results) |-> results[i].best_estimated_1rm])
    IN  ranked(rows(key_lift_loop(Occurrences(ws), two_weeks_ago,
                        [lift_records |-> <<>>, recent_lifts |-> <<>>])))

(***************************************************************************)
(* Strength standards                                                      *)
(***************************************************************************)
\* the if / elif chain: categories and their keywords, first match wins
LIFT_CATEGORIES ==
    << [category |-> "Bench Press",
        keywords |-> {<<"b","e","n","c","h">>, <<"c","h","e","s","t"," ","p","r","e","s","s">>, <<"d","b"," ","p","r","e","s","s">>, <<"f","l","a","t"," ","d","b">>}],
       [category |-> "Squat", keywords |-> {<<"s","q","u","a","t">>}],
       [category |-> "Deadlift", keywords |-> {<<"d","e","a","d","l","i","f","t">>, <<"r","d","l">>}] >>

\* the category of a name, None when no keyword occurs in it
lift_category(name_lower) ==
    LET category_matches(i, name) ==
            \E k \in LIFT_CATEGORIES[i].keywords : str_contains(name, k)
    IN  IF \E i \in 1..Len(LIFT_CATEGORIES) : category_matches(i, name_lower)
        THEN LIFT_CATEGORIES[CHOOSE i \in 1..Len(LIFT_CATEGORIES) :
                                 /\ category_matches(i, name_lower)
                                 /\ \A j \in 1..(i - 1) : ~category_matches(j, name_lower)].category
        ELSE None

\* the state is [lift_maxes, raised]; e1rm / bodyweight raises on bodyweight = 0
RECURSIVE strength_standards_loop(_, _, _)
strength_standards_loop(occs, bodyweight, st) ==
    IF occs = <<>> \/ st.raised # None THEN st
    ELSE LET workout == Head(occs).workout
             exercise == Head(occs).exercise
             name_lower == str_strip(str_lower(exercise.name))
             category == lift_category(name_lower)
             e1rm == calculate_estimated_1rm(exercise.weight_lbs, exercise.reps)
             replaces ==
                 /\ category # None
                 /\ \/ ~dict_has(st.lift_maxes, category)
                    \/ gt_rounded1(e1rm, dict_get(st.lift_maxes, category).estimated_1rm)
         IN  strength_standards_loop(Tail(occs), bodyweight,
                 IF ~replaces THEN st
                 ELSE IF bodyweight = 0
                      THEN [lift_maxes |-> st.lift_maxes, raised |-> "ZeroDivisionError"]
                      ELSE [lift_maxes |->
                                dict_set(st.lift_maxes, category,
                                    [lift |-> category,
                                     exercise |-> exercise.name,
                                     weight |-> exercise.weight_lbs,
                                     reps |-> exercise.reps,
                                     estimated_1rm |-> round1(e1rm),
                                     bw_ratio |-> round2(Frac(e1rm.num, e1rm.den * bodyweight)),
                                     date |-> date_isoformat(workout.date)]),
                            raised |-> None])

\* [value, raised]: the list returned, or the exception that left the call
calculate_strength_standards(ws, bodyweight) ==
    LET st == strength_standards_loop(Occurrences(ws), bodyweight,
                                      [lift_maxes |-> <<>>, raised |-> None])
        records == dict_values(st.lift_maxes)
    IN  IF st.raised # None
        THEN [value |-> None, raised |-> st.raised]
        ELSE [value |-> sorted_reverse(records,
                            [i \in 1..Len(records) |-> records[i].bw_ratio]),
              raised |-> None]

(***************************************************************************)
(* float arithmetic on exact fractions, continued                          *)
(***************************************************************************)
\* the fraction in lowest terms (num >= 0, den > 0)
frac_norm(x) ==
    LET RECURSIVE gcd(_, _)
        gcd(a, b) ==
            IF b = 0 THEN a ELSE gcd(b, a % b)
    IN  LET g == gcd(x.num, x.den)
        IN  IF x.num = 0 THEN Frac(0, 1) ELSE Frac(x.num \div g, x.den \div g)

frac_add(a, b) ==
    frac_norm(Frac(a.num * b.den + b.num * a.den, a.den * b.den))

\* a / b, b # 0
frac_div(a, b) ==
    frac_norm(Frac(a.num * b.den, a.den * b.num))

frac_lt(a, b) ==
    a.num * b.den < b.num * a.den

frac_le(a, b) ==
    a.num * b.den <= b.num * a.den

\* sum(xs) of fractions
RECURSIVE frac_sum(_)
frac_sum(xs) ==
    IF xs = <<>> THEN Frac(0, 1) ELSE frac_add(Head(xs), frac_sum(Tail(xs)))

\* [x for x in xs if keep(x)]
RECURSIVE SelectIdx(_, _, _)
SelectIdx(xs, keep, i) ==
    IF i > Len(xs) THEN <<>>
    ELSE (IF keep[i] THEN <<xs[i]>> ELSE <<>>) \o SelectIdx(xs, keep, i + 1)

\* sorted(items, key=...) where keys[i] is the key of items[i]: ascending, stable
sorted_asc(items, keys) ==
    LET n == Len(items)
        before(i) == {j \in 1..n : keys[j] < keys[i] \/ (keys[j] = keys[i] /\ j < i)}
    IN  [r \in 1..n |-> items[CHOOSE i \in 1..n : Cardinality(before(i)) = r - 1]]

(***************************************************************************)
(* StravaActivity                                                          *)
(***************************************************************************)
\* distance_miles and elevation_gain_feet are floats (fractions); the optional
\* numbers are fractions or NoneDict
StravaActivity(name, activity_type, date, distance_miles, moving_time_seconds) ==
    [name |-> name, activity_type |-> activity_type, date |-> date,
     distance_miles |-> distance_miles,
     moving_time_seconds |-> moving_time_seconds,
     elevation_gain_feet |-> Frac(0, 1),
     average_heartrate |-> NoneDict, max_heartrate |-> NoneDict,
     suffer_score |-> NoneDict]

RUN ==
    "run"

\* StravaActivity.moving_time_minutes
moving_time_minutes(a) ==
    Frac(a.moving_time_seconds, 60)

\* StravaActivity.pace_seconds
pace_seconds(a) ==
    IF a.distance_miles.num = 0 THEN NoneDict
    ELSE frac_div(Frac(a.moving_time_seconds, 1), a.distance_miles)

\* bool(x) with 0.0 taken as true
truthy_not_none(x) ==
    x # NoneDict

\* bool(x) of an optional float: None and 0.0 are false
truthy(x) ==
    x # NoneDict /\ x.num # 0

\* f"{secs:02d}" and f"{mins}" for non-negative integers
RECURSIVE decimal(_)
decimal(n) ==
    IF n < 10 THEN <<DIGITS[n + 1]>>
    ELSE Append(decimal(n \div 10), DIGITS[(n % 10) + 1])

decimal_02d(n) ==
    IF n < 10 THEN <<"0">> \o decimal(n) ELSE decimal(n)

\* f"{mins}:{secs}", the seconds without padding
minutes_seconds_unpadded(seconds) ==
    LET whole == seconds.num \div seconds.den
    IN  decimal(whole \div 60) \o <<":">> \o decimal(whole % 60)

\* f"{mins}:{secs:02d}" of a non-negative number of seconds
minutes_seconds(seconds) ==
    LET whole == seconds.num \div seconds.den
    IN  decimal(whole \div 60) \o <<":">> \o decimal_02d(whole % 60)

\* StravaActivity.pace_per_mile
pace_per_mile(a) ==
    IF a.distance_miles.num = 0 THEN None
    ELSE minutes_seconds(pace_seconds(a))

_format_pace(seconds) ==
    IF seconds.num <= 0 THEN <<"N","/","A">>
    ELSE minutes_seconds(seconds)

\* [a for a in activities if a.activity_type == ActivityType.RUN]
runs_of(acts) ==
    SelectIdx(acts, [i \in 1..Len(acts) |-> acts[i].activity_type = RUN], 1)

(***************************************************************************)
(* Running streaks                                                         *)
(***************************************************************************)
\* streaks_loop where a second run on the same day extends the streak
RECURSIVE streaks_loop_same_day_extends(_, _, _)
streaks_loop_same_day_extends(runs, i, st) ==
    IF i > Len(runs) THEN st
    ELSE LET diff == date_toordinal(runs[i].date) - date_toordinal(runs[i - 1].date)
         IN  streaks_loop_same_day_extends(runs, i + 1,
                 IF diff <= 1
                 THEN [current |-> st.current + 1,
                       longest |-> IF st.current + 1 > st.longest
                                   THEN st.current + 1 ELSE st.longest]
                 ELSE [current |-> 1, longest |-> st.longest])

\* streaks_loop where a gap does not reset the streak
RECURSIVE streaks_loop_no_reset(_, _, _)
streaks_loop_no_reset(runs, i, st) ==
    IF i > Len(runs) THEN st
    ELSE LET diff == date_toordinal(runs[i].date) - date_toordinal(runs[i - 1].date)
         IN  streaks_loop_no_reset(runs, i + 1,
                 IF diff = 1
                 THEN [current |-> st.current + 1,
                       longest |-> IF st.current + 1 > st.longest
                                   THEN st.current + 1 ELSE st.longest]
                 ELSE st)

\* the loop over range(1, len(runs)); the state is [current, longest]
RECURSIVE streaks_loop(_, _, _)
streaks_loop(runs, i, st) ==
    IF i > Len(runs) THEN st
    ELSE LET diff == date_toordinal(runs[i].date) - date_toordinal(runs[i - 1].date)
         IN  streaks_loop(runs, i + 1,
                 IF diff = 1
                 THEN [current |-> st.current + 1,
                       longest |-> IF st.current + 1 > st.longest
                                   THEN st.current + 1 ELSE st.longest]
                 ELSE IF diff > 1
                      THEN [current |-> 1, longest |-> st.longest]
                      ELSE st)

\* calculate_running_streaks where a run of yesterday no longer counts
calculate_running_streaks_ge(acts, today) ==
    LET unsorted == runs_of(acts)
        runs == sorted_asc(unsorted,
                    [i \in 1..Len(unsorted) |-> date_toordinal(unsorted[i].date)])
        st == streaks_loop(runs, 2, [current |-> 1, longest |-> 1])
        days_since_last == date_toordinal(today) - date_toordinal(runs[Len(runs)].date)
    IN  IF runs = <<>>
        THEN [current_streak |-> 0, longest_streak |-> 0]
        ELSE [current_streak |-> IF days_since_last >= 1 THEN 0 ELSE st.current,
              longest_streak |-> st.longest,
              last_run_date |-> date_isoformat(runs[Len(runs)].date)]

\* today is datetime.now().date()
calculate_running_streaks(acts, today) ==
    LET unsorted == runs_of(acts)
        runs == sorted_asc(unsorted,
                    [i \in 1..Len(unsorted) |-> date_toordinal(unsorted[i].date)])
        st == streaks_loop(runs, 2, [current |-> 1, longest |-> 1])
        days_since_last == date_toordinal(today) - date_toordinal(runs[Len(runs)].date)
    IN  IF runs = <<>>
        THEN [current_streak |-> 0, longest_streak |-> 0]
        ELSE [current_streak |-> IF days_since_last > 1 THEN 0 ELSE st.current,
              longest_streak |-> st.longest,
              last_run_date |-> date_isoformat(runs[Len(runs)].date)]

(***************************************************************************)
(* Pace zones                                                              *)
(***************************************************************************)
\* float("inf"): greater than every fraction under frac_lt
INF ==
    Frac(1, 0)

\* the zones dict, in insertion order
ZONES ==
    << [zone |-> <<"e","a","s","y">>, min |-> Frac(540, 1), max |-> INF],
       [zone |-> <<"s","t","e","a","d","y">>, min |-> Frac(480, 1), max |-> Frac(540, 1)],
       [zone |-> <<"t","e","m","p","o">>, min |-> Frac(420, 1), max |-> Frac(480, 1)],
       [zone |-> <<"t","h","r","e","s","h","o","l","d">>, min |-> Frac(360, 1), max |-> Frac(420, 1)],
       [zone |-> <<"s","p","e","e","d">>, min |-> Frac(0, 1), max |-> Frac(360, 1)] >>

_format_pace_range(min_secs, max_secs) ==
    LET min_str == IF min_secs.num > 0 THEN _format_pace(min_secs) ELSE <<"<","6",":","0","0">>
        max_str == IF frac_lt(max_secs, INF) THEN _format_pace(max_secs) ELSE <<"9",":","0","0","+">>
    IN  IF max_secs = INF THEN <<">">> \o min_str
        ELSE IF min_secs.num = 0 THEN <<"<">> \o max_str
        ELSE max_str \o <<" ","-"," ">> \o min_str

\* the runs of calculate_pace_zones where every activity type counts
pace_zone_runs_any_type(acts) ==
    SelectIdx(acts, [i \in 1..Len(acts) |-> truthy(pace_seconds(acts[i]))], 1)

\* [a for a in activities if a.activity_type == RUN and a.pace_seconds]
pace_zone_runs(acts) ==
    SelectIdx(acts, [i \in 1..Len(acts) |->
                        acts[i].activity_type = RUN /\ truthy(pace_seconds(acts[i]))], 1)

\* miles and percentage are rounded to one decimal: tenths
calculate_pace_zones(acts) ==
    LET \* the inner loop with its break: the first zone from k on that holds the
        \* pace, 0 when none does
        RECURSIVE first_zone(_, _)
        first_zone(pace, k) ==
            IF k > Len(ZONES) THEN 0
            ELSE IF frac_le(ZONES[k].min, pace) /\ frac_lt(pace, ZONES[k].max) THEN k
            ELSE first_zone(pace, k + 1)
        \* the outer loop; tally[k] is [count, miles] of zone k
        RECURSIVE pace_zones_loop(_, _, _)
        pace_zones_loop(runs, i, tally) ==
            IF i > Len(runs) THEN tally
            ELSE LET k == first_zone(pace_seconds(runs[i]), 1)
                 IN  pace_zones_loop(runs, i + 1,
                         IF k = 0 THEN tally
                         ELSE [tally EXCEPT ![k] =
                                  [count |-> @.count + 1,
                                   miles |-> frac_add(@.miles, runs[i].distance_miles)]])
    IN  LET runs == pace_zone_runs(acts)
            tally == pace_zones_loop(runs, 1,
                         [k \in 1..Len(ZONES) |-> [count |-> 0, miles |-> Frac(0, 1)]])
        IN  [k \in 1..Len(ZONES) |->
                [zone |-> ZONES[k].zone,
                 pace_range |-> _format_pace_range(ZONES[k].min, ZONES[k].max),
                 count |-> tally[k].count,
                 miles |-> round1(tally[k].miles),
                 percentage |-> IF runs # <<>>
                                THEN round1(Frac(tally[k].count * 100, Len(runs)))
                                ELSE 0]]

(***************************************************************************)
(* Weekly volume and its rolling average                                   *)
(***************************************************************************)
\* date.isocalendar(): the ISO year and week
isocalendar(d) ==
    LET \* the ordinal of the Monday that starts ISO week 1 of the year
        _isoweek1monday(year) ==
            LET firstday == date_toordinal(Date(year, 1, 1))
                firstweekday == (firstday + 6) % 7
                week1monday == firstday - firstweekday
            IN  IF firstweekday > 3 THEN week1monday + 7 ELSE week1monday
    IN  LET today == date_toordinal(d)
            week == (today - _isoweek1monday(d.year)) \div 7
        IN  IF week < 0
            THEN [year |-> d.year - 1,
                  week |-> ((today - _isoweek1monday(d.year - 1)) \div 7) + 1]
            ELSE IF week >= 52 /\ today >= _isoweek1monday(d.year + 1)
            THEN [year |-> d.year + 1, week |-> 1]
            ELSE [year |-> d.year, week |-> week + 1]

\* LiftingWorkout.total_volume: the sum of weight x reps
RECURSIVE total_volume(_)
total_volume(exercises) ==
    IF exercises = <<>> THEN 0
    ELSE Head(exercises).weight_lbs * Head(exercises).reps
         + total_volume(Tail(exercises))

\* volume is round(volume, 0) of a sum of integers
calculate_weekly_volume(ws) ==
    LET \* the loop over workouts; acc is the defaultdict keyed by (year, week)
        RECURSIVE weekly_volume_loop(_, _)
        weekly_volume_loop(rest, acc) ==
            IF rest = <<>> THEN acc
            ELSE LET workout == Head(rest)
                     key == isocalendar(workout.date)
                     data == IF dict_has(acc, key) THEN dict_get(acc, key)
                             ELSE [volume |-> 0, workouts |-> 0, date |-> workout.date]
                 IN  weekly_volume_loop(Tail(rest),
                         dict_set(acc, key,
                             [volume |-> data.volume + total_volume(workout.exercises),
                              workouts |-> data.workouts + 1,
                              date |-> data.date]))
        \* sorted(weekly.items())
        sorted_weeks(weekly) ==
            sorted_asc(weekly,
                [i \in 1..Len(weekly) |->
                    weekly[i].key.year * 100 + weekly[i].key.week])
        rows(items) ==
            [i \in 1..Len(items) |->
                [week |-> decimal(items[i].key.year) \o <<"-","W">>
                              \o decimal_02d(items[i].key.week),
                 volume |-> items[i].value.volume,
                 workouts |-> items[i].value.workouts,
                 date |-> date_isoformat(items[i].value.date)]]
    IN  rows(sorted_weeks(weekly_volume_loop(ws, <<>>)))

\* sum(w["volume"] for w in weekly[lo:hi]), positions lo..hi (1-based)
RECURSIVE window_volume(_, _, _)
window_volume(weekly, lo, hi) ==
    IF lo > hi THEN 0
    ELSE weekly[lo].volume + window_volume(weekly, lo + 1, hi)

\* calculate_exercise_volume_trend with the rolling average left unrounded
calculate_exercise_volume_trend_unrounded(ws, window_weeks) ==
    LET with_rolling_avg(weekly) ==
          IF Len(weekly) < window_weeks THEN weekly
        ELSE [i \in 1..Len(weekly) |->
                 [week |-> weekly[i].week, volume |-> weekly[i].volume,
                  workouts |-> weekly[i].workouts, date |-> weekly[i].date,
                  rolling_avg |->
                      IF i >= window_weeks
                      THEN frac_norm(Frac(window_volume(weekly, i - window_weeks + 1, i),
                                          window_weeks))
                      ELSE NoneDict]]
    IN  with_rolling_avg(calculate_weekly_volume(ws))

\* rolling_avg is a float (a fraction with denominator 1 after round(x, 0))
\* or None; window_weeks >= 1
calculate_exercise_volume_trend(ws, window_weeks) ==
    LET with_rolling_avg(weekly) ==
          IF Len(weekly) < window_weeks THEN weekly
        ELSE [i \in 1..Len(weekly) |->
                 [week |-> weekly[i].week, volume |-> weekly[i].volume,
                  workouts |-> weekly[i].workouts, date |-> weekly[i].date,
                  rolling_avg |->
                      IF i >= window_weeks
                      THEN Frac(round_half_even(
                                    window_volume(weekly, i - window_weeks + 1, i),
                                    window_weeks), 1)
                      ELSE NoneDict]]
    IN  with_rolling_avg(calculate_weekly_volume(ws))

(***************************************************************************)
(* Lifting statistics                                                      *)
(***************************************************************************)
\* filter_cardio_workouts where the label is compared as typed
filter_cardio_workouts_as_typed(ws) ==
    SelectIdx(ws, [i \in 1..Len(ws) |-> ws[i].muscle_groups # <<"c","a","r","d","i","o">>], 1)

\* [w for w in workouts if w.muscle_groups.lower() != "cardio"]
filter_cardio_workouts(ws) ==
    SelectIdx(ws, [i \in 1..Len(ws) |-> str_lower(ws[i].muscle_groups) # <<"c","a","r","d","i","o">>], 1)

\* distribution[workout.muscle_groups] += 1 on a defaultdict(int)
RECURSIVE distribution_loop(_, _)
distribution_loop(ws, distribution) ==
    IF ws = <<>> THEN distribution
    ELSE LET k == Head(ws).muscle_groups
         IN  distribution_loop(Tail(ws),
                 dict_set(distribution, k,
                     (IF dict_has(distribution, k) THEN dict_get(distribution, k) ELSE 0) + 1))

\* now is datetime.now().date(); the two reads of the empty branch happen
\* within one call and return the same date
calculate_lifting_stats(ws, now) ==
    LET \* sum(w.total_volume for w in workouts)
        RECURSIVE sum_total_volume(_)
        sum_total_volume(lw) ==
            IF lw = <<>> THEN 0
            ELSE total_volume(Head(lw).exercises) + sum_total_volume(Tail(lw))
        \* min(dates) and max(dates) of a non-empty list of workouts
        min_date(lw) ==
            lw[CHOOSE i \in 1..Len(lw) :
                   \A j \in 1..Len(lw) : date_toordinal(lw[i].date) <= date_toordinal(lw[j].date)].date
        max_date(lw) ==
            lw[CHOOSE i \in 1..Len(lw) :
                   \A j \in 1..Len(lw) : date_toordinal(lw[i].date) >= date_toordinal(lw[j].date)].date
    IN  LET lifting_workouts == filter_cardio_workouts(ws)
        IN  IF lifting_workouts = <<>>
            THEN [total_workouts |-> 0,
                  total_volume_lbs |-> 0,
                  workout_distribution |-> <<>>,
                  date_range_start |-> now,
                  date_range_end |-> now,
                  personal_records |-> <<>>]
            ELSE [total_workouts |-> Len(lifting_workouts),
                  total_volume_lbs |-> sum_total_volume(lifting_workouts),
                  workout_distribution |-> distribution_loop(lifting_workouts, <<>>),
                  date_range_start |-> min_date(lifting_workouts),
                  date_range_end |-> max_date(lifting_workouts),
                  personal_records |-> calculate_personal_records(lifting_workouts)]

(***************************************************************************)
(* Running statistics                                                      *)
(***************************************************************************)
\* min(runs, key=...) and max(runs, key=...): the first of the extreme items;
\* min(xs) and max(xs) when the items are their own keys
first_min_by(items, keys) ==
    items[CHOOSE i \in 1..Len(items) :
              /\ \A j \in 1..Len(items) : frac_le(keys[i], keys[j])
              /\ \A j \in 1..(i - 1) : frac_lt(keys[i], keys[j])]

first_max_by(items, keys) ==
    items[CHOOSE i \in 1..Len(items) :
              /\ \A j \in 1..Len(items) : frac_le(keys[j], keys[i])
              /\ \A j \in 1..(i - 1) : frac_lt(keys[j], keys[i])]

\* the paces of calculate_running_stats with zero-distance runs kept in
valid_paces_unfiltered(runs) ==
    [i \in 1..Len(runs) |->
        IF runs[i].distance_miles.num = 0 THEN Frac(0, 1) ELSE pace_seconds(runs[i])]

\* [r.pace_seconds for r in runs if r.pace_seconds]
valid_paces(runs) ==
    LET kept == SelectIdx(runs, [i \in 1..Len(runs) |-> truthy(pace_seconds(runs[i]))], 1)
    IN  [i \in 1..Len(kept) |-> pace_seconds(kept[i])]

\* now is datetime.now(); the rounded floats are tenths (total_miles,
\* total_time_hours, miles_this_month), hundredths (avg_distance) and units
\* (total_elevation_feet)
calculate_running_stats(acts, now) ==
    LET \* r.pace_seconds or float("inf")
        pace_or_inf(r) ==
            IF truthy(pace_seconds(r)) THEN pace_seconds(r) ELSE INF
        \* the dict made of the fastest and of the longest run
        run_summary(r) ==
            [name |-> r.name, date |-> date_isoformat(r.date),
             distance |-> r.distance_miles, pace |-> pace_per_mile(r)]
    IN  LET runs == runs_of(acts)
            total_miles == frac_sum([i \in 1..Len(runs) |-> runs[i].distance_miles])
            total_seconds == frac_sum([i \in 1..Len(runs) |-> Frac(runs[i].moving_time_seconds, 1)])
            total_elevation == frac_sum([i \in 1..Len(runs) |-> runs[i].elevation_gain_feet])
            paces == valid_paces(runs)
            avg_pace_secs == IF paces # <<>>
                             THEN frac_div(frac_sum(paces), Frac(Len(paces), 1))
                             ELSE Frac(0, 1)
            fastest_pace_secs == IF paces # <<>> THEN first_min_by(paces, paces) ELSE Frac(0, 1)
            month_start == Date(now.year, now.month, 1)
            month_runs == SelectIdx(runs, [i \in 1..Len(runs) |->
                              date_toordinal(runs[i].date) >= date_toordinal(month_start)], 1)
        IN  IF runs = <<>>
            THEN [total_runs |-> 0, total_miles |-> 0, total_time_hours |-> 0,
                  total_elevation_feet |-> 0, avg_distance |-> 0,
                  avg_pace |-> <<"N","/","A">>, fastest_pace |-> <<"N","/","A">>,
                  longest_run_miles |-> Frac(0, 1),
                  runs_this_month |-> 0, miles_this_month |-> 0,
                  fastest_run |-> NoneDict, longest_run |-> NoneDict]
            ELSE [total_runs |-> Len(runs),
                  total_miles |-> round1(total_miles),
                  total_time_hours |-> round1(frac_div(total_seconds, Frac(3600, 1))),
                  total_elevation_feet |-> round_half_even(total_elevation.num, total_elevation.den),
                  avg_distance |-> round2(frac_div(total_miles, Frac(Len(runs), 1))),
                  avg_pace |-> _format_pace(avg_pace_secs),
                  fastest_pace |-> _format_pace(fastest_pace_secs),
                  longest_run_miles |->
                      first_max_by(runs, [i \in 1..Len(runs) |->
                                             runs[i].distance_miles]).distance_miles,
                  runs_this_month |-> Len(month_runs),
                  miles_this_month |-> round1(frac_sum([i \in 1..Len(month_runs) |-> month_runs[i].distance_miles])),
                  fastest_run |-> IF paces # <<>>
                                  THEN run_summary(first_min_by(runs,
                                           [i \in 1..Len(runs) |-> pace_or_inf(runs[i])]))
                                  ELSE NoneDict,
                  longest_run |-> run_summary(first_max_by(runs, [i \in 1..Len(runs) |-> runs[i].distance_miles]))]

(***************************************************************************)
(* Further lifting calculators                                             *)
(***************************************************************************)
get_all_exercises(ws) ==
    LET \* sorted(list(names)) of a set of str
        sorted_strs(names) ==
            [r \in 1..Cardinality(names) |->
                CHOOSE s \in names : Cardinality({t \in names : str_gt(s, t)}) = r - 1]
    IN  LET occs == Occurrences(ws)
        IN  sorted_strs({str_strip(str_lower(occs[i].exercise.name)) : i \in 1..Len(occs)})

calculate_exercise_progression(ws, exercise_name) ==
    LET name_lower == str_strip(str_lower(exercise_name))
        \* sorted(workouts, key=lambda w: w.date)
        occs == Occurrences(sorted_asc(ws,
                    [i \in 1..Len(ws) |-> date_toordinal(ws[i].date)]))
        hits == SelectIdx(occs, [i \in 1..Len(occs) |->
                    str_strip(str_lower(occs[i].exercise.name)) = name_lower], 1)
    IN  [i \in 1..Len(hits) |->
            [date |-> date_isoformat(hits[i].workout.date),
             weight |-> hits[i].exercise.weight_lbs,
             reps |-> hits[i].exercise.reps,
             rpe |-> hits[i].exercise.rpe,
             volume |-> hits[i].exercise.weight_lbs * hits[i].exercise.reps,
             estimated_1rm |-> round1(calculate_estimated_1rm(
                                   hits[i].exercise.weight_lbs, hits[i].exercise.reps))]]

calculate_volume_by_muscle_group(ws) ==
    LET \* acc[workout.muscle_groups] += workout.total_volume
        RECURSIVE volume_by_group_loop(_, _)
        volume_by_group_loop(rest, acc) ==
            IF rest = <<>> THEN acc
            ELSE LET k == Head(rest).muscle_groups
                 IN  volume_by_group_loop(Tail(rest),
                         dict_set(acc, k,
                             (IF dict_has(acc, k) THEN dict_get(acc, k) ELSE 0)
                                 + total_volume(Head(rest).exercises)))
    IN  LET volume_by_group == volume_by_group_loop(ws, <<>>)
        IN  sorted_reverse(volume_by_group,
                [i \in 1..Len(volume_by_group) |-> volume_by_group[i].value])

\* avg_days_between and workouts_per_week are rounded to one decimal: tenths
calculate_training_frequency(ws) ==
    LET RECURSIVE sum_ints(_)
        sum_ints(xs) ==
            IF xs = <<>> THEN 0 ELSE Head(xs) + sum_ints(Tail(xs))
    IN  LET sorted_workouts == sorted_asc(ws,
                                   [i \in 1..Len(ws) |-> date_toordinal(ws[i].date)])
            n == Len(sorted_workouts)
            gaps == [i \in 1..(n - 1) |->
                        date_toordinal(sorted_workouts[i + 1].date)
                            - date_toordinal(sorted_workouts[i].date)]
            avg_gap == IF gaps # <<>> THEN Frac(sum_ints(gaps), Len(gaps)) ELSE Frac(0, 1)
            total_days == date_toordinal(sorted_workouts[n].date)
                              - date_toordinal(sorted_workouts[1].date)
            weeks == IF total_days > 7 THEN Frac(total_days, 7) ELSE Frac(1, 1)
            workouts_per_week == IF n >= 2
                                 THEN Frac(n * weeks.den, weeks.num)
                                 ELSE Frac(n, 1)
        IN  IF ws = <<>>
            THEN [avg_days_between |-> 0, workouts_per_week |-> 0]
            ELSE [avg_days_between |-> round1(avg_gap),
                  workouts_per_week |-> round1(workouts_per_week),
                  total_workouts |-> n,
                  muscle_group_frequency |-> distribution_loop(ws, <<>>)]

(***************************************************************************)
(* Accessory lifts                                                         *)
(***************************************************************************)
\* the ACCESSORY_LIFTS dict, in insertion order
ACCESSORY_LIFTS ==
    << [lift |-> "db press",
        patterns |-> {<<"d","b"," ","p","r","e","s","s">>, <<"d","u","m","b","b","e","l","l"," ","p","r","e","s","s">>, <<"f","l","a","t"," ","d","b"," ","p","r","e","s","s">>, <<"i","n","c","l","i","n","e"," ","d","b"," ","p","r","e","s","s">>}],
       [lift |-> "lat pulldown",
        patterns |-> {<<"l","a","t"," ","p","u","l","l","d","o","w","n">>, <<"l","a","t"," ","p","u","l","l"," ","d","o","w","n">>, <<"l","a","t"," ","p","u","l","l","-","d","o","w","n">>, <<"c","a","b","l","e"," ","l","a","t"," ","p","u","l","l","d","o","w","n">>}],
       [lift |-> "pull-ups",
        patterns |-> {<<"p","u","l","l","-","u","p","s">>, <<"p","u","l","l","u","p","s">>, <<"p","u","l","l"," ","u","p","s">>, <<"c","h","i","n","-","u","p","s">>, <<"c","h","i","n","u","p","s">>, <<"c","h","i","n"," ","u","p","s">>}],
       [lift |-> "push-ups",
        patterns |-> {<<"p","u","s","h","-","u","p","s">>, <<"p","u","s","h","u","p","s">>, <<"p","u","s","h"," ","u","p","s">>}],
       [lift |-> "helms row",
        patterns |-> {<<"h","e","l","m","s"," ","r","o","w">>, <<"h","e","l","m"," ","r","o","w">>, <<"c","h","e","s","t"," ","s","u","p","p","o","r","t","e","d"," ","r","o","w">>}] >>

calculate_accessory_prs(ws) ==
    LET accessory_matches(i, name_lower) ==
            \E p \in ACCESSORY_LIFTS[i].patterns : str_contains(name_lower, p)
        \* the first category with a pattern in the name, None when there is none
        accessory_category(name_lower) ==
            IF \E i \in 1..Len(ACCESSORY_LIFTS) : accessory_matches(i, name_lower)
            THEN ACCESSORY_LIFTS[CHOOSE i \in 1..Len(ACCESSORY_LIFTS) :
                                     /\ accessory_matches(i, name_lower)
                                     /\ \A j \in 1..(i - 1) : ~accessory_matches(j, name_lower)].lift
            ELSE None
        \* the push-ups / pull-ups column of a workout; count is an optional int,
        \* carried as count/1 or NoneDict
        accessory_column_step(lift_maxes, lift, label, count, workout) ==
            IF truthy(count) /\ count.num > 0
                  /\ (~dict_has(lift_maxes, lift) \/ count.num > dict_get(lift_maxes, lift).reps)
            THEN dict_set(lift_maxes, lift,
                     [lift |-> lift, exercise |-> label, weight |-> 0, reps |-> count.num,
                      date |-> date_isoformat(workout.date)])
            ELSE lift_maxes
        \* one exercise of the inner loop
        accessory_exercise_step(lift_maxes, exercise, workout) ==
            LET category == accessory_category(str_strip(str_lower(exercise.name)))
                e1rm == calculate_estimated_1rm(exercise.weight_lbs, exercise.reps)
                current_e1rm == IF "estimated_1rm" \in DOMAIN dict_get(lift_maxes, category)
                                THEN dict_get(lift_maxes, category).estimated_1rm
                                ELSE 0
            IN  IF category = None THEN lift_maxes
                ELSE IF category \in {"pull-ups", "push-ups"}
                THEN IF ~dict_has(lift_maxes, category)
                        \/ exercise.reps > dict_get(lift_maxes, category).reps
                     THEN dict_set(lift_maxes, category,
                              [lift |-> category, exercise |-> exercise.name,
                               weight |-> exercise.weight_lbs, reps |-> exercise.reps,
                               date |-> date_isoformat(workout.date)])
                     ELSE lift_maxes
                ELSE IF ~dict_has(lift_maxes, category) \/ gt_rounded1(e1rm, current_e1rm)
                     THEN dict_set(lift_maxes, category,
                              [lift |-> category, exercise |-> exercise.name,
                               weight |-> exercise.weight_lbs, reps |-> exercise.reps,
                               estimated_1rm |-> round1(e1rm),
                               date |-> date_isoformat(workout.date)])
                     ELSE lift_maxes
        RECURSIVE accessory_exercises_loop(_, _, _)
        accessory_exercises_loop(lift_maxes, exercises, workout) ==
            IF exercises = <<>> THEN lift_maxes
            ELSE accessory_exercises_loop(
                     accessory_exercise_step(lift_maxes, Head(exercises), workout),
                     Tail(exercises), workout)
        RECURSIVE accessory_loop(_, _)
        accessory_loop(rest, lift_maxes) ==
            IF rest = <<>> THEN lift_maxes
            ELSE LET workout == Head(rest)
                     after_pushups == accessory_column_step(lift_maxes, "push-ups",
                                          <<"p","u","s","h","-","u","p","s">>, workout.pushups, workout)
                     after_pullups == accessory_column_step(after_pushups, "pull-ups",
                                          <<"p","u","l","l","-","u","p","s">>, workout.pullups, workout)
                 IN  accessory_loop(Tail(rest),
                         accessory_exercises_loop(after_pullups, workout.exercises, workout))
    IN  dict_values(accessory_loop(ws, <<>>))

(***************************************************************************)
(* The advanced lifting report                                             *)
(***************************************************************************)
\* {}
EmptyDict ==
    [k \in {} |-> k]

\* calculate_advanced_lifting_stats without the return of {} when the
\* filter leaves no workout
calculate_advanced_lifting_stats_no_cardio_guard(ws, now) ==
    LET lifting_workouts == filter_cardio_workouts(ws)
        \* [w.bodyweight_lbs for w in lifting_workouts if w.bodyweight_lbs]
        weighed == SelectIdx(lifting_workouts,
                       [i \in 1..Len(lifting_workouts) |->
                           truthy(lifting_workouts[i].bodyweight_lbs)], 1)
        bodyweights == [i \in 1..Len(weighed) |-> weighed[i].bodyweight_lbs]
        latest_bw == IF bodyweights # <<>>
                     THEN bodyweights[Len(bodyweights)].num \div bodyweights[Len(bodyweights)].den
                     ELSE 180
        standards == calculate_strength_standards(lifting_workouts, latest_bw)
    IN  IF ws = <<>> THEN [value |-> EmptyDict, raised |-> None]
        ELSE IF standards.raised # None THEN [value |-> None, raised |-> standards.raised]
        ELSE [value |->
                 [key_lift_prs |-> calculate_key_lift_prs(lifting_workouts, now),
                  rep_range_prs |-> calculate_rep_range_records(lifting_workouts, 8, 10, TRUE),
                  strength_standards |-> standards.value,
                  training_frequency |-> calculate_training_frequency(lifting_workouts),
                  volume_by_muscle |-> calculate_volume_by_muscle_group(lifting_workouts),
                  volume_trend |-> calculate_exercise_volume_trend(lifting_workouts, 4),
                  all_exercises |-> get_all_exercises(lifting_workouts)],
              raised |-> None]

\* now is datetime.now().date(), read by calculate_key_lift_prs; bodyweights
\* are whole pounds; window_weeks takes its default, 4; the result is
\* [value, raised]
calculate_advanced_lifting_stats(ws, now) ==
    LET lifting_workouts == filter_cardio_workouts(ws)
        \* [w.bodyweight_lbs for w in lifting_workouts if w.bodyweight_lbs]
        weighed == SelectIdx(lifting_workouts,
                       [i \in 1..Len(lifting_workouts) |->
                           truthy(lifting_workouts[i].bodyweight_lbs)], 1)
        bodyweights == [i \in 1..Len(weighed) |-> weighed[i].bodyweight_lbs]
        latest_bw == IF bodyweights # <<>>
                     THEN bodyweights[Len(bodyweights)].num \div bodyweights[Len(bodyweights)].den
                     ELSE 180
        standards == calculate_strength_standards(lifting_workouts, latest_bw)
    IN  IF ws = <<>> THEN [value |-> EmptyDict, raised |-> None]
        ELSE IF lifting_workouts = <<>> THEN [value |-> EmptyDict, raised |-> None]
        ELSE IF standards.raised # None THEN [value |-> None, raised |-> standards.raised]
        ELSE [value |->
                 [key_lift_prs |-> calculate_key_lift_prs(lifting_workouts, now),
                  rep_range_prs |-> calculate_rep_range_records(lifting_workouts, 8, 10, TRUE),
                  strength_standards |-> standards.value,
                  training_frequency |-> calculate_training_frequency(lifting_workouts),
                  volume_by_muscle |-> calculate_volume_by_muscle_group(lifting_workouts),
                  volume_trend |-> calculate_exercise_volume_trend(lifting_workouts, 4),
                  all_exercises |-> get_all_exercises(lifting_workouts)],
              raised |-> None]

(***************************************************************************)
(* Mileage and locations                                                   *)
(***************************************************************************)
\* run.date.strftime("%Y-%m")
strftime_Y_m(d) ==
    zero_padded(d.year, 4) \o <<"-">> \o zero_padded(d.month, 2)

\* sorted(d.items()) of a dict with str keys
sorted_items(d) ==
    [r \in 1..Len(d) |->
        d[CHOOSE i \in 1..Len(d) :
              Cardinality({j \in 1..Len(d) : str_gt(d[i].key, d[j].key)}) = r - 1]]

\* miles and minutes are rounded to one decimal: tenths
calculate_weekly_mileage(acts) ==
    LET \* the loop of calculate_weekly_mileage over the runs
        RECURSIVE weekly_mileage_loop(_, _)
        weekly_mileage_loop(runs, weekly) ==
            IF runs = <<>> THEN weekly
            ELSE LET run == Head(runs)
                     key == isocalendar(run.date)
                     data == IF dict_has(weekly, key) THEN dict_get(weekly, key)
                             ELSE [miles |-> Frac(0, 1), runs |-> 0, minutes |-> Frac(0, 1),
                                   date |-> run.date]
                 IN  weekly_mileage_loop(Tail(runs),
                         dict_set(weekly, key,
                             [miles |-> frac_add(data.miles, run.distance_miles),
                              runs |-> data.runs + 1,
                              minutes |-> frac_add(data.minutes, moving_time_minutes(run)),
                              date |-> data.date]))
        \* sorted(weekly.items())
        sorted_weeks(weekly) ==
            sorted_asc(weekly,
                [i \in 1..Len(weekly) |->
                    weekly[i].key.year * 100 + weekly[i].key.week])
        rows(items) ==
            [i \in 1..Len(items) |->
                [week |-> decimal(items[i].key.year) \o <<"-","W">>
                              \o decimal_02d(items[i].key.week),
                 miles |-> round1(items[i].value.miles),
                 runs |-> items[i].value.runs,
                 minutes |-> round1(items[i].value.minutes),
                 date |-> date_isoformat(items[i].value.date)]]
    IN  rows(sorted_weeks(weekly_mileage_loop(runs_of(acts), <<>>)))

\* miles and hours are rounded to one decimal: tenths
calculate_monthly_mileage(acts) ==
    LET \* the loop of calculate_monthly_mileage over the runs
        RECURSIVE monthly_mileage_loop(_, _)
        monthly_mileage_loop(runs, monthly) ==
            IF runs = <<>> THEN monthly
            ELSE LET run == Head(runs)
                     key == strftime_Y_m(run.date)
                     data == IF dict_has(monthly, key) THEN dict_get(monthly, key)
                             ELSE [miles |-> Frac(0, 1), runs |-> 0, minutes |-> Frac(0, 1)]
                 IN  monthly_mileage_loop(Tail(runs),
                         dict_set(monthly, key,
                             [miles |-> frac_add(data.miles, run.distance_miles),
                              runs |-> data.runs + 1,
                              minutes |-> frac_add(data.minutes, moving_time_minutes(run))]))
    IN  LET items == sorted_items(monthly_mileage_loop(runs_of(acts), <<>>))
        IN  [i \in 1..Len(items) |->
                [month |-> items[i].key,
                 miles |-> round1(items[i].value.miles),
                 runs |-> items[i].value.runs,
                 hours |-> round1(frac_div(items[i].value.minutes, Frac(60, 1)))]]

\* miles is rounded to one decimal: tenths
extract_locations(acts) ==
    LET \* name.split("]")[-1]: what follows the last "]"
        RECURSIVE after_last_bracket(_)
        after_last_bracket(s) ==
            IF \E i \in 1..Len(s) : s[i] = "]"
            THEN after_last_bracket(SubSeq(s, (CHOOSE i \in 1..Len(s) :
                                                  s[i] = "]" /\ \A j \in 1..(i - 1) : s[j] # "]") + 1,
                                           Len(s)))
            ELSE s
        \* the loop of extract_locations over the runs
        RECURSIVE locations_loop(_, _)
        locations_loop(runs, locations) ==
            IF runs = <<>> THEN locations
            ELSE LET run == Head(runs)
                     name == str_lower(run.name)
                     loc == str_strip(after_last_bracket(name))
                     data == IF dict_has(locations, loc) THEN dict_get(locations, loc)
                             ELSE [count |-> 0, miles |-> Frac(0, 1)]
                 IN  locations_loop(Tail(runs),
                         IF loc # <<>>
                         THEN dict_set(locations, loc,
                                  [count |-> data.count + 1,
                                   miles |-> frac_add(data.miles, run.distance_miles)])
                         ELSE locations)
    IN  LET locations == locations_loop(runs_of(acts), <<>>)
            rows == [i \in 1..Len(locations) |->
                        [name |-> locations[i].key,
                         count |-> locations[i].value.count,
                         miles |-> round1(locations[i].value.miles)]]
        IN  sorted_reverse(rows, [i \in 1..Len(rows) |-> rows[i].count])

(***************************************************************************)
(* Heart rate, running records, monthly trends                             *)
(***************************************************************************)
\* a - b
frac_sub(a, b) ==
    frac_norm(Frac(a.num * b.den - b.num * a.den, a.den * b.den))

frac_mul(a, b) ==
    frac_norm(Frac(a.num * b.num, a.den * b.den))

\* round(x, 0)
round0(x) ==
    round_half_even(x.num, x.den)

calculate_heart_rate_stats(acts) ==
    LET runs_with_hr == SelectIdx(acts, [i \in 1..Len(acts) |->
                            acts[i].activity_type = RUN /\ truthy(acts[i].average_heartrate)], 1)
        avg_hrs == [i \in 1..Len(runs_with_hr) |-> runs_with_hr[i].average_heartrate]
        with_max == SelectIdx(runs_with_hr, [i \in 1..Len(runs_with_hr) |->
                        truthy(runs_with_hr[i].max_heartrate)], 1)
        max_hrs == [i \in 1..Len(with_max) |-> with_max[i].max_heartrate]
    IN  IF runs_with_hr = <<>>
        THEN [available |-> FALSE]
        ELSE [available |-> TRUE,
              runs_with_hr |-> Len(runs_with_hr),
              avg_heartrate |-> round0(frac_div(frac_sum(avg_hrs), Frac(Len(avg_hrs), 1))),
              highest_avg_hr |-> round0(first_max_by(avg_hrs, avg_hrs)),
              lowest_avg_hr |-> round0(first_min_by(avg_hrs, avg_hrs)),
              max_heartrate_ever |-> IF max_hrs # <<>> THEN first_max_by(max_hrs, max_hrs) ELSE NoneDict]

\* int(minutes) and int((minutes - mins) * 60), as "M:SS"; the arithmetic is
\* exact, where the float product may fall just below a whole second
_format_time_minutes(minutes) ==
    LET mins == minutes.num \div minutes.den
        rest == frac_mul(frac_sub(minutes, Frac(mins, 1)), Frac(60, 1))
    IN  decimal(mins) \o <<":">> \o decimal_02d(rest.num \div rest.den)

\* the result is a dict whose keys depend on the runs
calculate_running_prs(acts) ==
    LET \* [r for r in runs if r.distance_miles > 0 and r.pace_seconds]
        valid_runs_of(runs) ==
            SelectIdx(runs, [i \in 1..Len(runs) |->
                runs[i].distance_miles.num > 0 /\ truthy(pace_seconds(runs[i]))], 1)
    IN  LET runs == runs_of(acts)
            valid_runs == valid_runs_of(runs)
            fastest == first_min_by(valid_runs,
                           [i \in 1..Len(valid_runs) |-> pace_seconds(valid_runs[i])])
            longest == first_max_by(runs, [i \in 1..Len(runs) |-> runs[i].distance_miles])
            most_climb == first_max_by(runs,
                              [i \in 1..Len(runs) |-> runs[i].elevation_gain_feet])
            runs_with_suffer == SelectIdx(runs, [i \in 1..Len(runs) |->
                                    truthy(runs[i].suffer_score)], 1)
            hardest == first_max_by(runs_with_suffer,
                           [i \in 1..Len(runs_with_suffer) |-> runs_with_suffer[i].suffer_score])
            five_k_runs == SelectIdx(valid_runs, [i \in 1..Len(valid_runs) |->
                               /\ frac_le(Frac(28, 10), valid_runs[i].distance_miles)
                               /\ frac_le(valid_runs[i].distance_miles, Frac(4, 1))], 1)
            fastest_5k == first_min_by(five_k_runs,
                              [i \in 1..Len(five_k_runs) |-> pace_seconds(five_k_runs[i])])
        IN  IF runs = <<>> THEN EmptyDict
            ELSE (IF valid_runs # <<>>
                  THEN [fastest_pace |->
                           [name |-> fastest.name, date |-> date_isoformat(fastest.date),
                            pace |-> pace_per_mile(fastest),
                            distance_miles |-> fastest.distance_miles]]
                  ELSE EmptyDict)
              @@ [longest_run |->
                     [name |-> longest.name, date |-> date_isoformat(longest.date),
                      distance_miles |-> longest.distance_miles,
                      pace |-> pace_per_mile(longest),
                      time_minutes |-> round1(moving_time_minutes(longest))]]
              @@ [most_elevation |->
                     [name |-> most_climb.name, date |-> date_isoformat(most_climb.date),
                      elevation_feet |-> most_climb.elevation_gain_feet,
                      distance_miles |-> most_climb.distance_miles]]
              @@ (IF runs_with_suffer # <<>>
                  THEN [hardest_effort |->
                           [name |-> hardest.name, date |-> date_isoformat(hardest.date),
                            suffer_score |-> hardest.suffer_score,
                            distance_miles |-> hardest.distance_miles,
                            pace |-> pace_per_mile(hardest)]]
                  ELSE EmptyDict)
              @@ (IF five_k_runs # <<>>
                  THEN [fastest_5k_pace |->
                           [name |-> fastest_5k.name, date |-> date_isoformat(fastest_5k.date),
                            pace |-> pace_per_mile(fastest_5k),
                            actual_distance |-> fastest_5k.distance_miles,
                            estimated_5k_time |-> _format_time_minutes(
                                frac_div(frac_mul(pace_seconds(fastest_5k), Frac(31, 10)),
                                         Frac(60, 1)))]]
                  ELSE EmptyDict)

calculate_monthly_trends(acts) ==
    LET \* the loop of calculate_monthly_trends over the runs
        RECURSIVE monthly_trends_loop(_, _)
        monthly_trends_loop(runs, monthly) ==
            IF runs = <<>> THEN monthly
            ELSE LET run == Head(runs)
                     key == strftime_Y_m(run.date)
                     data == IF dict_has(monthly, key) THEN dict_get(monthly, key)
                             ELSE [miles |-> Frac(0, 1), runs |-> 0, time_mins |-> Frac(0, 1),
                                   elevation |-> Frac(0, 1), paces |-> <<>>]
                 IN  monthly_trends_loop(Tail(runs),
                         dict_set(monthly, key,
                             [miles |-> frac_add(data.miles, run.distance_miles),
                              runs |-> data.runs + 1,
                              time_mins |-> frac_add(data.time_mins, moving_time_minutes(run)),
                              elevation |-> frac_add(data.elevation, run.elevation_gain_feet),
                              paces |-> IF truthy(pace_seconds(run))
                                        THEN Append(data.paces, pace_seconds(run))
                                        ELSE data.paces]))
        \* the entry of month i of the sorted items; prev_miles is the miles of the
        \* entry before it. change_pct is None or a number of tenths over 10
        monthly_trend_entry(items, i) ==
            LET data == items[i].value
                avg_pace == IF data.paces # <<>>
                            THEN frac_div(frac_sum(data.paces), Frac(Len(data.paces), 1))
                            ELSE Frac(0, 1)
                prev_miles == items[i - 1].value.miles
            IN  [month |-> items[i].key,
                 miles |-> round1(data.miles),
                 runs |-> data.runs,
                 hours |-> round1(frac_div(data.time_mins, Frac(60, 1))),
                 elevation_feet |-> round0(data.elevation),
                 avg_pace |-> _format_pace(avg_pace),
                 change_pct |-> IF i > 1 /\ prev_miles.num > 0
                                THEN Frac(round1(frac_mul(frac_div(frac_sub(data.miles, prev_miles),
                                                                   prev_miles),
                                                          Frac(100, 1))), 10)
                                ELSE NoneDict]
    IN  LET items == sorted_items(monthly_trends_loop(runs_of(acts), <<>>))
        IN  [i \in 1..Len(items) |-> monthly_trend_entry(items, i)]

(***************************************************************************)
(* The advanced running report                                             *)
(***************************************************************************)
\* now is datetime.now().date(), read by calculate_running_streaks
calculate_advanced_running_stats(acts, now) ==
    LET runs == runs_of(acts)
    IN  IF runs = <<>> THEN EmptyDict
        ELSE [total_runs |-> Len(runs),
              streaks |-> calculate_running_streaks(acts, now),
              pace_zones |-> calculate_pace_zones(acts),
              heart_rate_stats |-> calculate_heart_rate_stats(acts),
              personal_records |-> calculate_running_prs(acts),
              monthly_trends |-> calculate_monthly_trends(acts)]

(***************************************************************************)
(* Parsing an exercise                                                     *)
(***************************************************************************)
\* Exercise.from_string: the argument is a str or None (<<None>>, a tuple
\* whose element is no character), the value an Exercise or None (NoneDict);
\* weight_lbs and rpe are floats (fractions).
\* float() and int() take a decimal literal between optional whitespace: an
\* optional sign and digits, for float() with at most one point
from_string(exercise_str) ==
    LET \* exercise_str.split(","), field being the part read so far
        RECURSIVE split(_, _)
        split(s, field) ==
            IF s = <<>> THEN <<field>>
            ELSE IF Head(s) = "," THEN <<field>> \o split(Tail(s), <<>>)
            ELSE split(Tail(s), Append(field, Head(s)))
        is_digit(c) == \E k \in 1..Len(DIGITS) : DIGITS[k] = c
        digit(c) == (CHOOSE k \in 1..Len(DIGITS) : DIGITS[k] = c) - 1
        RECURSIVE digits_value(_)
        digits_value(ds) ==
            IF ds = <<>> THEN 0
            ELSE 10 * digits_value(SubSeq(ds, 1, Len(ds) - 1)) + digit(ds[Len(ds)])
        RECURSIVE pow10(_)
        pow10(k) == IF k = 0 THEN 1 ELSE 10 * pow10(k - 1)
        sign(t) == IF t # <<>> /\ Head(t) = "-" THEN -1 ELSE 1
        unsigned(t) == IF t # <<>> /\ Head(t) \in {"+", "-"} THEN Tail(t) ELSE t
        \* int(x) returns (no ValueError)
        int_parses(x) ==
            LET u == unsigned(str_strip(x))
            IN  u # <<>> /\ \A i \in 1..Len(u) : is_digit(u[i])
        int_of(x) ==
            sign(str_strip(x)) * digits_value(unsigned(str_strip(x)))
        \* float(x) returns (no ValueError)
        float_parses(x) ==
            LET u == unsigned(str_strip(x))
                points == {i \in 1..Len(u) : u[i] = "."}
            IN  /\ Cardinality(points) <= 1
                /\ Len(u) > Cardinality(points)
                /\ \A i \in (1..Len(u)) \ points : is_digit(u[i])
        float_of(x) ==
            LET u == unsigned(str_strip(x))
                points == {i \in 1..Len(u) : u[i] = "."}
                point == IF points = {} THEN Len(u) + 1 ELSE CHOOSE i \in points : TRUE
                digits == SubSeq(u, 1, point - 1) \o SubSeq(u, point + 1, Len(u))
            IN  frac_norm(Frac(sign(str_strip(x)) * digits_value(digits),
                               pow10(IF points = {} THEN 0 ELSE Len(u) - point)))
        \* the body of the try block for the fields parts
        parsed(parts) ==
            LET weight_blank == str_strip(parts[2]) = <<>>
                reps_blank == str_strip(parts[3]) = <<>>
                has_rpe == Len(parts) > 3 /\ str_strip(parts[4]) # <<>>
            IN  IF \/ ~weight_blank /\ ~float_parses(parts[2])
                   \/ ~reps_blank /\ ~int_parses(parts[3])
                   \/ has_rpe /\ ~float_parses(parts[4])
                THEN NoneDict
                ELSE Exercise(str_strip(parts[1]),
                              IF weight_blank THEN Frac(0, 1) ELSE float_of(parts[2]),
                              IF reps_blank THEN 0 ELSE int_of(parts[3]),
                              IF has_rpe THEN float_of(parts[4]) ELSE NoneDict)
        after_split(parts) ==
            IF Len(parts) < 3 THEN NoneDict ELSE parsed(parts)
    IN  IF exercise_str = <<None>> THEN NoneDict
        ELSE IF exercise_str = <<>> \/ str_strip(exercise_str) = <<>> THEN NoneDict
        ELSE after_split(split(exercise_str, <<>>))

(***************************************************************************)
(* State machine: the workouts are loaded, then a calculator is applied    *)
(***************************************************************************)
Init ==
    /\ workouts = <<>>
    /\ activities = <<>>
    /\ call = [fn |-> "none"]
    /\ result = None
    /\ raised = None

\* all sequences over S of length 0..n
SeqsUpTo(S, n) ==
    UNION {[1..k -> S] : k \in 0..n}

NumOccurrences(ws) ==
    Len(Occurrences(ws))

\* load_workouts: the next parsed row is appended to the list
LoadWorkout(w) ==
    /\ call.fn = "none"
    /\ Len(workouts) < MaxWorkouts
    /\ NumOccurrences(workouts) + Len(w.exercises) <= MaxOccurrences
    /\ workouts' = Append(workouts, w)
    /\ UNCHANGED <<activities, call, result, raised>>

Call_calculate_estimated_1rm(weight, reps) ==
    /\ call' = [fn |-> "calculate_estimated_1rm", weight |-> weight, reps |-> reps]
    /\ result' = calculate_estimated_1rm(weight, reps)
    /\ raised' = None
    /\ UNCHANGED <<workouts, activities>>

Call_normalize_exercise_name(name) ==
    /\ call' = [fn |-> "normalize_exercise_name", name |-> name]
    /\ result' = normalize_exercise_name(name)
    /\ raised' = None
    /\ UNCHANGED <<workouts, activities>>

Call_calculate_personal_records ==
    /\ call.fn = "none"
    /\ call' = [fn |-> "calculate_personal_records"]
    /\ result' = calculate_personal_records(workouts)
    /\ raised' = None
    /\ UNCHANGED <<workouts, activities>>

Call_calculate_rep_range_records(min_reps, max_reps, key_lifts_only) ==
    /\ call.fn = "none"
    /\ call' = [fn |-> "calculate_rep_range_records", min_reps |-> min_reps,
                max_reps |-> max_reps, key_lifts_only |-> key_lifts_only]
    /\ result' = calculate_rep_range_records(workouts, min_reps, max_reps, key_lifts_only)
    /\ raised' = None
    /\ UNCHANGED <<workouts, activities>>

\* now is what datetime.now().date() returns during the call
Call_calculate_key_lift_prs(now) ==
    /\ call.fn = "none"
    /\ call' = [fn |-> "calculate_key_lift_prs", now |-> now]
    /\ result' = calculate_key_lift_prs(workouts, now)
    /\ raised' = None
    /\ UNCHANGED <<workouts, activities>>

Call_calculate_strength_standards(bodyweight) ==
    /\ call.fn = "none"
    /\ call' = [fn |-> "calculate_strength_standards", bodyweight |-> bodyweight]
    /\ result' = calculate_strength_standards(workouts, bodyweight).value
    /\ raised' = calculate_strength_standards(workouts, bodyweight).raised
    /\ UNCHANGED <<workouts, activities>>

(***************************************************************************)
(* Inputs                                                                  *)
(***************************************************************************)
WeightsE1RM ==
    0..MaxWeight

RepsE1RM ==
    (0 - RepsMargin)..(37 + RepsMargin)

\* how a name may be typed: as is, in capitals, padded with whitespace
Typed(name) ==
    {name, str_upper(name), <<" ">> \o name \o <<" ", "\t">>}

NamesNormalize ==
    UNION {Typed(k) : k \in DOMAIN EXERCISE_ALIASES}
    \cup UNION {Typed(EXERCISE_ALIASES[k]) : k \in DOMAIN EXERCISE_ALIASES}
    \cup Typed(<<"u","n","k","n","o","w","n"," ","e","x","e","r","c","i","s","e">>) \cup Typed(<<"h","a","c","k"," ","s","q","u","a","t">>)
    \cup {<<"F","l","a","t"," ","B","B"," ","B","e","n","c","h">>, <<"U","n","k","n","o","w","n"," ","E","x","e","r","c","i","s","e">>, <<>>, <<" ">>}

D_2024_01_01 ==
    Date(2024, 1, 1)
D_2024_01_08 ==
    Date(2024, 1, 8)
D_2024_01_15 ==
    Date(2024, 1, 15)

WorkoutsOf(dates, pool) ==
    {LiftingWorkout(d, <<"l","e","g","s">>, exs) :
        d \in dates, exs \in SeqsUpTo(pool, MaxExercises)}

ExercisesPR ==
    { Exercise(<<"S","q","u","a","t">>, 135, 5, None),
      Exercise(<<" ","s","q","u","a","t"," ">>, 135, 3, None),
      Exercise(<<"s","q","u","a","t">>, 225, 5, None),
      Exercise(<<"C","u","r","l">>, 135, 8, None),
      Exercise(<<"c","u","r","l">>, 30, 10, None) }

WorkoutsPR ==
    WorkoutsOf({D_2024_01_01, D_2024_01_08}, ExercisesPR)

ExercisesRR ==
    { Exercise(<<"S","q","u","a","t">>, 135, 3, None),
      Exercise(<<"B","B"," ","S","q","u","a","t">>, 131, 4, 8),
      Exercise(<<"s","q","u","a","t">>, 225, 12, None),
      Exercise(<<"R","D","L">>, 100, 8, None),
      Exercise(<<"C","u","r","l">>, 50, 4, None) }

WorkoutsRR ==
    WorkoutsOf({D_2024_01_01, D_2024_01_08}, ExercisesRR)

\* (min_reps, max_reps): the default 8-10 and two other ranges
RepRangesRR ==
    {<<8, 10>>, <<3, 4>>, <<1, 20>>}

ExercisesKL ==
    { Exercise(<<"S","q","u","a","t">>, 135, 3, None),
      Exercise(<<"B","B"," ","S","q","u","a","t">>, 131, 4, 8),
      Exercise(<<"s","q","u","a","t">>, 225, 5, None),
      Exercise(<<"s","q","u","a","t">>, 235, 3, None),
      Exercise(<<"F","l","a","t"," ","B","B"," ","B","e","n","c","h">>, 100, 8, None),
      Exercise(<<"D","e","a","d","l","i","f","t">>, 45, 25, None) }

WorkoutsKL ==
    WorkoutsOf({D_2024_01_01, D_2024_01_08}, ExercisesKL)

\* the day of the call: both dates, one date, no date within the last 14 days
NowsKL ==
    {Date(2024, 1, 15), Date(2024, 1, 22), Date(2024, 2, 5)}

ExercisesSS ==
    { Exercise(<<"S","q","u","a","t">>, 135, 3, None),
      Exercise(<<"F","r","o","n","t"," ","S","q","u","a","t">>, 131, 4, None),
      Exercise(<<"B","e","n","c","h"," ","S","q","u","a","t">>, 100, 8, None),
      Exercise(<<"D","B"," ","R","D","L">>, 100, 8, None),
      Exercise(<<"C","u","r","l">>, 50, 10, None) }

WorkoutsSS ==
    WorkoutsOf({D_2024_01_01, D_2024_01_08}, ExercisesSS)

BodyweightsSS ==
    {0, 180}

(***************************************************************************)
(* Specifications                                                          *)
(***************************************************************************)
NextE1RM ==
    \E weight \in WeightsE1RM, reps \in RepsE1RM :
        Call_calculate_estimated_1rm(weight, reps)

SpecE1RM ==
    Init /\ [][NextE1RM]_vars

NextNormalize ==
    \E name \in NamesNormalize : Call_normalize_exercise_name(name)

SpecNormalize ==
    Init /\ [][NextNormalize]_vars

NextPR ==
    \/ \E w \in WorkoutsPR : LoadWorkout(w)
    \/ Call_calculate_personal_records

SpecPR ==
    Init /\ [][NextPR]_vars

NextRR ==
    \/ \E w \in WorkoutsRR : LoadWorkout(w)
    \/ \E range \in RepRangesRR, key_lifts_only \in BOOLEAN :
           Call_calculate_rep_range_records(range[1], range[2], key_lifts_only)

SpecRR ==
    Init /\ [][NextRR]_vars

NextKL ==
    \/ \E w \in WorkoutsKL : LoadWorkout(w)
    \/ \E now \in NowsKL : Call_calculate_key_lift_prs(now)

SpecKL ==
    Init /\ [][NextKL]_vars

NextSS ==
    \/ \E w \in WorkoutsSS : LoadWorkout(w)
    \/ \E bodyweight \in BodyweightsSS : Call_calculate_strength_standards(bodyweight)

SpecSS ==
    Init /\ [][NextSS]_vars

(***************************************************************************)
(* Running calculators: the activities are loaded, then a calculator is    *)
(* applied                                                                 *)
(***************************************************************************)
\* load_activities: the next activity of the export is appended to the list
LoadActivity(a) ==
    /\ call.fn = "none"
    /\ Len(activities) < MaxActivities
    /\ activities' = Append(activities, a)
    /\ UNCHANGED <<workouts, call, result, raised>>

\* the calculators that take one of the two lists and nothing else
Call_calculator(fn) ==
    /\ call.fn = "none"
    /\ call' = [fn |-> fn]
    /\ result' = CASE fn = "calculate_weekly_volume" ->
                       calculate_weekly_volume(workouts)
                  [] fn = "calculate_volume_by_muscle_group" ->
                       calculate_volume_by_muscle_group(workouts)
                  [] fn = "calculate_training_frequency" ->
                       calculate_training_frequency(workouts)
                  [] fn = "calculate_accessory_prs" ->
                       calculate_accessory_prs(workouts)
                  [] fn = "get_all_exercises" ->
                       get_all_exercises(workouts)
                  [] fn = "calculate_pace_zones" ->
                       calculate_pace_zones(activities)
                  [] fn = "calculate_weekly_mileage" ->
                       calculate_weekly_mileage(activities)
                  [] fn = "calculate_monthly_mileage" ->
                       calculate_monthly_mileage(activities)
                  [] fn = "extract_locations" ->
                       extract_locations(activities)
                  [] fn = "calculate_heart_rate_stats" ->
                       calculate_heart_rate_stats(activities)
                  [] fn = "calculate_running_prs" ->
                       calculate_running_prs(activities)
                  [] fn = "calculate_monthly_trends" ->
                       calculate_monthly_trends(activities)
    /\ raised' = None
    /\ UNCHANGED <<workouts, activities>>

\* now is what datetime.now().date() returns during the call; the calculator
\* may be applied again to the same list on a later day
Call_calculate_running_streaks(now) ==
    /\ call' = [fn |-> "calculate_running_streaks", now |-> now]
    /\ result' = calculate_running_streaks(activities, now)
    /\ raised' = None
    /\ UNCHANGED <<workouts, activities>>

NextStreaks ==
    \* runs across a year's end, on three days in a row and after a gap; a walk
    \* on the day that would bridge the first days to the rest
    \/ \E a \in { StravaActivity(<<"R","u","n">>, RUN, Date(2023, 12, 31), Frac(3, 1), 1500),
                  StravaActivity(<<"R","u","n">>, RUN, Date(2024, 1, 1), Frac(3, 1), 1500),
                  StravaActivity(<<"R","u","n">>, RUN, Date(2024, 1, 2), Frac(3, 1), 1500),
                  StravaActivity(<<"R","u","n">>, RUN, Date(2024, 1, 3), Frac(3, 1), 1500),
                  StravaActivity(<<"W","a","l","k">>, "walk", Date(2024, 1, 4), Frac(1, 1), 1200),
                  StravaActivity(<<"R","u","n">>, RUN, Date(2024, 1, 10), Frac(3, 1), 1500) } :
           LoadActivity(a)
    \* the day of the call: before, on, one day and two days after the last run
    \/ \E now \in {Date(2024, 1, 3), Date(2024, 1, 10), Date(2024, 1, 11), Date(2024, 1, 12)} :
           Call_calculate_running_streaks(now)

SpecStreaks ==
    Init /\ [][NextStreaks]_vars

NextPZ ==
    \* runs at 10:00, 9:00, 8:20, 8:00, 6:00 and 5:00 per mile, a run with no
    \* distance, a run with no moving time, and a walk at 10:00 per mile
    \/ \E a \in { StravaActivity(<<"R","u","n">>, RUN, D_2024_01_01, Frac(3, 1), 1800),
                  StravaActivity(<<"R","u","n">>, RUN, D_2024_01_01, Frac(3, 1), 1620),
                  StravaActivity(<<"R","u","n">>, RUN, Date(2024, 1, 2), Frac(5, 2), 1250),
                  StravaActivity(<<"R","u","n">>, RUN, Date(2024, 1, 2), Frac(3, 1), 1440),
                  StravaActivity(<<"R","u","n">>, RUN, D_2024_01_08, Frac(5, 2), 900),
                  StravaActivity(<<"R","u","n">>, RUN, D_2024_01_08, Frac(3, 1), 900),
                  StravaActivity(<<"R","u","n">>, RUN, D_2024_01_08, Frac(0, 1), 600),
                  StravaActivity(<<"R","u","n">>, RUN, D_2024_01_08, Frac(1, 1), 0),
                  StravaActivity(<<"W","a","l","k">>, "walk", D_2024_01_01, Frac(1, 1), 600) } :
           LoadActivity(a)
    \/ Call_calculator("calculate_pace_zones")

SpecPZ ==
    Init /\ [][NextPZ]_vars

(***************************************************************************)
(* Weekly volume trend                                                     *)
(***************************************************************************)
Call_calculate_exercise_volume_trend(window_weeks) ==
    /\ call.fn = "none"
    /\ call' = [fn |-> "calculate_exercise_volume_trend",
                window_weeks |-> window_weeks]
    \* with window_weeks <= 0 the guard len(weekly) < window_weeks never holds, and
    \* at the first week the slice weekly[1 - window_weeks : 1] is empty: the mean
    \* sum(...) / len(window) divides by zero
    /\ \E weekly \in {calculate_weekly_volume(workouts)} :
           IF window_weeks <= 0 /\ weekly # <<>>
           THEN /\ result' = None
                /\ raised' = "ZeroDivisionError"
           ELSE /\ result' = calculate_exercise_volume_trend(workouts, window_weeks)
                /\ raised' = None
    /\ UNCHANGED <<workouts, activities>>

NextVT ==
    \* a Sunday, the Monday after it, the Sunday and the Monday a week later, and
    \* a Monday of December that belongs to week 1 of the next ISO year; volumes
    \* 200 and 99: their means over two weeks end in .5
    \/ \E w \in {LiftingWorkout(d, <<"l","e","g","s">>, <<e>>) :
                      d \in {Date(2023, 12, 31), D_2024_01_01, Date(2024, 1, 7),
                             D_2024_01_08, Date(2024, 12, 30)},
                      e \in {Exercise(<<"C","u","r","l">>, 50, 4, None),
                             Exercise(<<"R","D","L">>, 99, 1, None)}}
                  \cup {LiftingWorkout(D_2024_01_08, <<"r","e","s","t">>, <<>>)} :
           LoadWorkout(w)
    \/ \E window_weeks \in 1..(MaxWorkouts + 1) :
           Call_calculate_exercise_volume_trend(window_weeks)

SpecVT ==
    Init /\ [][NextVT]_vars

(***************************************************************************)
(* Lifting statistics                                                      *)
(***************************************************************************)
\* now is what datetime.now().date() returns during the call
Call_calculate_lifting_stats(now) ==
    /\ call.fn = "none"
    /\ call' = [fn |-> "calculate_lifting_stats", now |-> now]
    /\ result' = calculate_lifting_stats(workouts, now)
    /\ raised' = None
    /\ UNCHANGED <<workouts, activities>>



NextLS ==
    \* cardio sessions labelled in three letter cases (one of them lists a squat
    \* above every lifting squat), a label that only contains the word, and
    \* lifting workouts
    \/ \E w \in { LiftingWorkout(D_2024_01_01, <<"c","a","r","d","i","o">>, <<Exercise(<<"T","r","e","a","d","m","i","l","l">>, 0, 1, None)>>),
                  LiftingWorkout(Date(2023, 12, 31), <<"C","a","r","d","i","o">>, <<Exercise(<<"S","q","u","a","t">>, 300, 1, None)>>),
                  LiftingWorkout(Date(2024, 2, 1), <<"C","A","R","D","I","O">>, <<>>),
                  LiftingWorkout(D_2024_01_08, <<" ","c","a","r","d","i","o">>, <<Exercise(<<"R","o","w","e","r">>, 0, 1, None)>>),
                  LiftingWorkout(D_2024_01_08, <<"l","e","g","s">>, <<Exercise(<<"S","q","u","a","t">>, 135, 5, None)>>),
                  LiftingWorkout(D_2024_01_15, <<"L","e","g","s">>,
                      <<Exercise(<<"s","q","u","a","t">>, 185, 3, None), Exercise(<<"C","u","r","l">>, 30, 10, None)>>),
                  LiftingWorkout(D_2024_01_01, <<"p","u","s","h">>, <<>>) } :
           LoadWorkout(w)
    \/ \E now \in {Date(2024, 3, 1), Date(2024, 3, 2)} :
           Call_calculate_lifting_stats(now)

SpecLS ==
    Init /\ [][NextLS]_vars

(***************************************************************************)
(* Running statistics                                                      *)
(***************************************************************************)
\* now is what datetime.now() returns during the call
Call_calculate_running_stats(now) ==
    /\ call.fn = "none"
    /\ call' = [fn |-> "calculate_running_stats", now |-> now]
    /\ result' = calculate_running_stats(activities, now)
    /\ raised' = None
    /\ UNCHANGED <<workouts, activities>>



NextRS ==
    \* runs at 8:20 (twice, over different distances) and 10:00 per mile, a run
    \* with no distance, a run with no moving time, and a walk faster than any run
    \/ \E a \in { StravaActivity(<<"F","a","s","t">>, RUN, D_2024_01_08, Frac(3, 1), 1500),
                  StravaActivity(<<"T","i","e">>, RUN, Date(2024, 2, 1), Frac(5, 2), 1250),
                  StravaActivity(<<"S","l","o","w">>, RUN, D_2024_01_01, Frac(3, 1), 1800),
                  StravaActivity(<<"T","r","e","a","d","m","i","l","l">>, RUN, Date(2024, 2, 1), Frac(0, 1), 600),
                  StravaActivity(<<"M","a","n","u","a","l">>, RUN, D_2024_01_08, Frac(1, 1), 0),
                  StravaActivity(<<"W","a","l","k">>, "walk", D_2024_01_01, Frac(1, 1), 300) } :
           LoadActivity(a)
    \/ \E now \in {Date(2024, 1, 20), Date(2024, 2, 15)} :
           Call_calculate_running_stats(now)

SpecRS ==
    Init /\ [][NextRS]_vars

(***************************************************************************)
(* The reports: every calculator applied to the loaded collections         *)
(***************************************************************************)
Call_calculate_exercise_progression(exercise_name) ==
    /\ call.fn = "none"
    /\ call' = [fn |-> "calculate_exercise_progression", exercise_name |-> exercise_name]
    /\ result' = calculate_exercise_progression(workouts, exercise_name)
    /\ raised' = None
    /\ UNCHANGED <<workouts, activities>>

\* now is what datetime.now().date() returns during the call
Call_calculate_advanced_lifting_stats(now) ==
    /\ call.fn = "none"
    /\ call' = [fn |-> "calculate_advanced_lifting_stats", now |-> now]
    /\ \E returned \in {calculate_advanced_lifting_stats(workouts, now)} :
           /\ result' = returned.value
           /\ raised' = returned.raised
    /\ UNCHANGED <<workouts, activities>>

\* now is what datetime.now().date() returns during the call
Call_calculate_advanced_running_stats(now) ==
    /\ call.fn = "none"
    /\ call' = [fn |-> "calculate_advanced_running_stats", now |-> now]
    /\ result' = calculate_advanced_running_stats(activities, now)
    /\ raised' = None
    /\ UNCHANGED <<workouts, activities>>

NextReports ==
    \* a cardio session with an exercise, one labelled in capitals, and a
    \* lifting workout
    \/ \E w \in { LiftingWorkout(D_2024_01_01, <<"c","a","r","d","i","o">>,
                      <<Exercise(<<"T","r","e","a","d","m","i","l","l">>, 0, 1, None)>>),
                  LiftingWorkout(D_2024_01_08, <<"C","A","R","D","I","O">>, <<>>),
                  LiftingWorkout(D_2024_01_08, <<"l","e","g","s">>,
                      <<Exercise(<<"S","q","u","a","t">>, 135, 5, None)>>) } :
           LoadWorkout(w)
    \* a walk and a run with heart rate and suffer score
    \/ \E a \in { [StravaActivity(<<"W","a","l","k">>, "walk", D_2024_01_01, Frac(1, 1), 1200) EXCEPT
                      !.average_heartrate = Frac(100, 1),
                      !.max_heartrate = Frac(120, 1)],
                  [StravaActivity(<<"R","u","n">>, RUN, D_2024_01_08, Frac(3, 1), 1500) EXCEPT
                      !.average_heartrate = Frac(150, 1),
                      !.max_heartrate = Frac(180, 1),
                      !.suffer_score = Frac(50, 1)] } :
           LoadActivity(a)
    \/ Call_calculate_personal_records
    \/ Call_calculate_rep_range_records(8, 10, TRUE)
    \/ Call_calculate_key_lift_prs(D_2024_01_15)
    \/ \E bodyweight \in BodyweightsSS : Call_calculate_strength_standards(bodyweight)
    \/ Call_calculate_lifting_stats(D_2024_01_15)
    \/ Call_calculate_exercise_volume_trend(4)
    \/ Call_calculate_exercise_progression(<<"s","q","u","a","t">>)
    \/ Call_calculate_advanced_lifting_stats(D_2024_01_15)
    \/ Call_calculate_running_stats(D_2024_01_15)
    \/ Call_calculate_running_streaks(D_2024_01_15)
    \/ Call_calculate_advanced_running_stats(D_2024_01_15)
    \/ \E fn \in { "calculate_weekly_volume",
                   "calculate_volume_by_muscle_group",
                   "calculate_training_frequency",
                   "calculate_accessory_prs",
                   "get_all_exercises",
                   "calculate_pace_zones",
                   "calculate_weekly_mileage",
                   "calculate_monthly_mileage",
                   "extract_locations",
                   "calculate_heart_rate_stats",
                   "calculate_running_prs",
                   "calculate_monthly_trends" } :
           Call_calculator(fn)

SpecReports ==
    Init /\ [][NextReports]_vars

(***************************************************************************)
(* Running records                                                         *)
(***************************************************************************)
\* the properties pace_seconds and pace_per_mile of the activity at position i
Call_pace_per_mile(i) ==
    /\ call.fn = "none"
    /\ call' = [fn |-> "pace_per_mile", index |-> i]
    /\ result' = [pace_seconds |-> pace_seconds(activities[i]),
                  pace_per_mile |-> pace_per_mile(activities[i])]
    /\ raised' = None
    /\ UNCHANGED <<workouts, activities>>

NextRP ==
    \* runs of 2.8, 3.0 and 4.0 miles, a faster run of 5 miles, a run with no
    \* moving time and a suffer score of 0, a run with no distance, and a walk
    \* that is faster and harder than any run
    \/ \E a \in { [StravaActivity(<<"P","a","r","k">>, RUN, Date(2024, 1, 1), Frac(3, 1), 1800) EXCEPT
                      !.suffer_score = Frac(50, 1)],
                  StravaActivity(<<"S","h","o","r","t">>, RUN, Date(2024, 1, 2), Frac(14, 5), 1340),
                  [StravaActivity(<<"L","o","n","g">>, RUN, Date(2024, 1, 3), Frac(4, 1), 1810) EXCEPT
                      !.suffer_score = Frac(80, 1)],
                  StravaActivity(<<"T","e","m","p","o">>, RUN, Date(2024, 1, 4), Frac(5, 1), 2000),
                  [StravaActivity(<<"M","a","n","u","a","l">>, RUN, Date(2024, 1, 5), Frac(3, 1), 0) EXCEPT
                      !.suffer_score = Frac(0, 1)],
                  StravaActivity(<<"T","r","e","a","d","m","i","l","l">>, RUN, Date(2024, 1, 6), Frac(0, 1), 600),
                  [StravaActivity(<<"W","a","l","k">>, "walk", Date(2024, 1, 7), Frac(3, 1), 600) EXCEPT
                      !.suffer_score = Frac(99, 1)] } :
           LoadActivity(a)
    \/ Call_calculator("calculate_running_prs")
    \/ \E i \in 1..Len(activities) : Call_pace_per_mile(i)

SpecRP ==
    Init /\ [][NextRP]_vars

(***************************************************************************)
(* Monthly trends                                                          *)
(***************************************************************************)
NextMT ==
    \* runs in December, January (two), and March, a run without distance in
    \* February, and a walk in February
    \/ \E a \in { StravaActivity(<<"D","e","c">>, RUN, Date(2023, 12, 20), Frac(8, 1), 4000),
                  StravaActivity(<<"J","a","n">>, RUN, Date(2024, 1, 10), Frac(10, 1), 5000),
                  StravaActivity(<<"J","a","n","2">>, RUN, Date(2024, 1, 20), Frac(5, 2), 1250),
                  StravaActivity(<<"F","e","b">>, RUN, Date(2024, 2, 5), Frac(0, 1), 600),
                  StravaActivity(<<"M","a","r">>, RUN, Date(2024, 3, 3), Frac(15, 1), 7500),
                  StravaActivity(<<"W","a","l","k">>, "walk", Date(2024, 2, 10), Frac(5, 1), 6000) } :
           LoadActivity(a)
    \/ Call_calculator("calculate_monthly_trends")

SpecMT ==
    Init /\ [][NextMT]_vars

(***************************************************************************)
(* Training frequency                                                      *)
(***************************************************************************)
NextTF ==
    \* workouts two, five, seven and nineteen days apart and across a year's
    \* end, two of them on the same day, under labels that differ in case
    \/ \E w \in { LiftingWorkout(Date(2023, 12, 30), <<"p","u","l","l">>, <<>>),
                  LiftingWorkout(D_2024_01_01, <<"l","e","g","s">>, <<>>),
                  LiftingWorkout(Date(2024, 1, 3), <<"p","u","s","h">>, <<>>),
                  LiftingWorkout(D_2024_01_08, <<"l","e","g","s">>, <<>>),
                  LiftingWorkout(D_2024_01_08, <<"L","e","g","s">>, <<>>),
                  LiftingWorkout(Date(2024, 1, 20), <<"p","u","s","h">>, <<>>) } :
           LoadWorkout(w)
    \/ Call_calculator("calculate_training_frequency")

SpecTF ==
    Init /\ [][NextTF]_vars

(***************************************************************************)
(* The ranked lists                                                        *)
(***************************************************************************)
NextRanked ==
    \* a lighter lift is listed before a heavier one, and a label of less
    \* volume before one of more
    \/ \E w \in { LiftingWorkout(D_2024_01_01, <<"l","e","g","s">>,
                      <<Exercise(<<"S","q","u","a","t">>, 135, 5, None)>>),
                  LiftingWorkout(D_2024_01_08, <<"p","u","s","h">>,
                      <<Exercise(<<"F","l","a","t"," ","B","B"," ","B","e","n","c","h">>, 185, 5, None)>>),
                  LiftingWorkout(D_2024_01_08, <<"p","u","l","l">>,
                      <<Exercise(<<"D","e","a","d","l","i","f","t">>, 225, 3, None), Exercise(<<"C","u","r","l">>, 30, 10, None)>>),
                  LiftingWorkout(D_2024_01_15, <<"l","e","g","s">>,
                      <<Exercise(<<"S","q","u","a","t">>, 100, 8, None)>>),
                  LiftingWorkout(D_2024_01_15, <<"P","u","s","h">>,
                      <<Exercise(<<"C","u","r","l">>, 50, 10, None)>>) } :
           LoadWorkout(w)
    \/ Call_calculate_personal_records
    \/ \E key_lifts_only \in BOOLEAN : Call_calculate_rep_range_records(3, 10, key_lifts_only)
    \/ Call_calculate_key_lift_prs(Date(2024, 1, 22))
    \/ Call_calculate_strength_standards(180)
    \/ Call_calculator("calculate_volume_by_muscle_group")

SpecRanked ==
    Init /\ [][NextRanked]_vars

(***************************************************************************)
(* Accessory lifts                                                         *)
(***************************************************************************)
NextAP ==
    \* push-up and pull-up counts in the columns (one of them 0) and as
    \* exercises, two presses whose estimates differ by less than a tenth, a
    \* name with patterns of two categories, a lift of no category, and a row
    \/ \E w \in { [LiftingWorkout(D_2024_01_01, <<"p","u","s","h">>,
                       <<Exercise(<<"D","B"," ","P","r","e","s","s">>, 135, 3, None)>>) EXCEPT
                      !.pushups = Frac(20, 1)],
                  LiftingWorkout(D_2024_01_08, <<"p","u","s","h">>,
                      <<Exercise(<<"I","n","c","l","i","n","e"," ","D","B"," ","P","r","e","s","s">>, 131, 4, None),
                        Exercise(<<"P","u","s","h","-","u","p","s">>, 0, 25, None)>>),
                  [LiftingWorkout(D_2024_01_08, <<"p","u","l","l">>,
                       <<Exercise(<<"C","h","i","n"," ","U","p","s">>, 0, 8, None)>>) EXCEPT
                      !.pullups = Frac(12, 1), !.pushups = Frac(30, 1)],
                  [LiftingWorkout(D_2024_01_15, <<"p","u","l","l">>,
                       <<Exercise(<<"P","u","s","h","u","p","s","/","P","u","l","l","u","p","s">>, 0, 15, None)>>) EXCEPT
                      !.pushups = Frac(0, 1)],
                  LiftingWorkout(D_2024_01_15, <<"l","e","g","s">>,
                      <<Exercise(<<"S","q","u","a","t">>, 225, 5, None),
                        Exercise(<<"L","a","t"," ","P","u","l","l","-","D","o","w","n">>, 100, 10, None)>>),
                  LiftingWorkout(Date(2024, 1, 22), <<"p","u","l","l">>,
                      <<Exercise(<<"H","e","l","m","s"," ","R","o","w">>, 60, 10, None)>>) } :
           LoadWorkout(w)
    \/ Call_calculator("calculate_accessory_prs")

SpecAP ==
    Init /\ [][NextAP]_vars

(***************************************************************************)
(* Parsing an exercise                                                     *)
(***************************************************************************)
Call_from_string(exercise_str) ==
    /\ call.fn = "none"
    /\ call' = [fn |-> "from_string", exercise_str |-> exercise_str]
    /\ result' = from_string(exercise_str)
    /\ raised' = None
    /\ UNCHANGED <<workouts, activities>>

NextFS ==
    \* None, the empty string and whitespace
    \/ Call_from_string(<<None>>)
    \/ \E s \in {<<>>, <<" "," "," ">>, <<"\t">>} : Call_from_string(s)
    \* one to five fields joined by commas: names, weights, reps and RPE that
    \* are numbers, blank, padded with spaces, signed, or not numbers
    \/ \E name \in {<<"s","q","u","a","t">>, <<" ","B","e","n","c","h"," ","P","r","e","s","s"," ">>, <<"j","u","s","t","-","n","a","m","e">>, <<>>},
          weight \in {<<"1","3","5">>, <<" ","4","2",".","5"," ">>, <<"-","5">>, <<".","5">>, <<"1",".">>, <<>>, <<" ">>, <<"w","e","i","g","h","t">>, <<"1",".","2",".","3">>, <<".">>},
          reps \in {<<"5">>, <<" ","1","0"," ">>, <<"+","3">>, <<>>, <<" ">>, <<"5",".","0">>, <<"f","i","v","e">>, <<"-">>},
          rpe \in {<<"8">>, <<"7",".","5">>, <<>>, <<" ">>, <<"h","a","r","d">>},
          fields \in 1..5 :
           Call_from_string(
               SubSeq(name \o <<",">> \o weight \o <<",">> \o reps \o <<",">> \o rpe \o <<",","n","o","t","e">>,
                      1,
                      CASE fields = 1 -> Len(name)
                        [] fields = 2 -> Len(name) + 1 + Len(weight)
                        [] fields = 3 -> Len(name) + Len(weight) + Len(reps) + 2
                        [] fields = 4 -> Len(name) + Len(weight) + Len(reps) + Len(rpe) + 3
                        [] fields = 5 -> Len(name) + Len(weight) + Len(reps) + Len(rpe) + 8))

SpecFS ==
    Init /\ [][NextFS]_vars

(***************************************************************************)
(* Optional parameters and the recorded bodyweight                         *)
(***************************************************************************)
NextAL ==
    \* the big three on distinct dates, listed in any order: bodyweights 200
    \* (the most recent), 190 and 0, a cardio session with a bodyweight, and a
    \* workout that records none
    \/ \E w \in { [LiftingWorkout(D_2024_01_15, <<"l","e","g","s">>,
                       <<Exercise(<<"S","q","u","a","t">>, 135, 5, None)>>)
                       EXCEPT !.bodyweight_lbs = Frac(200, 1)],
                  [LiftingWorkout(D_2024_01_08, <<"p","u","s","h">>,
                       <<Exercise(<<"F","l","a","t"," ","B","B"," ","B","e","n","c","h">>, 185, 5, None)>>)
                       EXCEPT !.bodyweight_lbs = Frac(190, 1)],
                  [LiftingWorkout(D_2024_01_01, <<"p","u","l","l">>,
                       <<Exercise(<<"D","e","a","d","l","i","f","t">>, 225, 3, None)>>)
                       EXCEPT !.bodyweight_lbs = Frac(0, 1)],
                  [LiftingWorkout(Date(2024, 1, 20), <<"c","a","r","d","i","o">>, <<>>)
                       EXCEPT !.bodyweight_lbs = Frac(150, 1)],
                  LiftingWorkout(Date(2024, 1, 10), <<"l","e","g","s">>,
                       <<Exercise(<<"S","q","u","a","t">>, 100, 1, None)>>) } :
           LoadWorkout(w)
    \/ \E window_weeks \in -1..2 : Call_calculate_exercise_volume_trend(window_weeks)
    \/ \E bodyweight \in BodyweightsSS : Call_calculate_strength_standards(bodyweight)
    \/ Call_calculate_advanced_lifting_stats(Date(2024, 1, 22))

SpecAL ==
    Init /\ [][NextAL]_vars

(***************************************************************************)
(* Properties                                                              *)
(***************************************************************************)
\* t is s lower-cased with its leading and trailing whitespace removed
IsLowerTrimOf(t, s) ==
    \E i \in 0..Len(s) :
        /\ i + Len(t) <= Len(s)
        /\ \A k \in 1..i : s[k] \in WHITESPACE
        /\ \A k \in (i + Len(t) + 1)..Len(s) : s[k] \in WHITESPACE
        /\ \A k \in 1..Len(t) : t[k] = char_lower(s[i + k])
        /\ t # <<>> => (t[1] \notin WHITESPACE /\ t[Len(t)] \notin WHITESPACE)
        /\ t = <<>> => i = 0

RECURSIVE DropLeadingSpace(_)
DropLeadingSpace(s) ==
    IF s = <<>> \/ Head(s) \notin WHITESPACE THEN s ELSE DropLeadingSpace(Tail(s))

RECURSIVE DropTrailingSpace(_)
DropTrailingSpace(s) ==
    IF s = <<>> \/ s[Len(s)] \notin WHITESPACE THEN s
    ELSE DropTrailingSpace(SubSeq(s, 1, Len(s) - 1))

LowerTrimmed(s) ==
    DropTrailingSpace(DropLeadingSpace([i \in 1..Len(s) |-> char_lower(s[i])]))

Called(fn) ==
    call.fn = fn

\* C1: calculate_estimated_1rm(weight, reps) is weight for reps <= 0 and for
\* reps >= 37, is weight * 36 / (37 - reps) for reps in 1..36, and for a fixed
\* reps in 1..36 a larger weight gives a strictly larger result.
C1_Estimated1RM ==
    /\ [](Called("calculate_estimated_1rm") =>
            /\ result.den > 0
            /\ IF call.reps <= 0 \/ call.reps >= 37
               THEN result.num = call.weight * result.den
               ELSE result.num * (37 - call.reps) = call.weight * 36 * result.den)
    /\ [][(/\ Called("calculate_estimated_1rm")
           /\ call'.fn = "calculate_estimated_1rm"
           /\ call'.reps = call.reps
           /\ call.reps \in 1..36
           /\ call'.weight > call.weight)
          => result'.num * result.den > result.num * result'.den]_vars

C1_Witness ==
    /\ Called("calculate_estimated_1rm")
    /\ call.reps = 36
    /\ call.weight = 10
    /\ result.num = 360 * result.den

\* C2: normalize_exercise_name(name) is the alias table's value for the
\* lower-cased trimmed name when that is a key of the table and the lower-cased
\* trimmed name otherwise; "Flat BB Bench" gives "bench press" and
\* "unknown exercise" gives itself.
C2_Normalize ==
    Called("normalize_exercise_name") =>
        /\ \A k \in DOMAIN EXERCISE_ALIASES :
               IsLowerTrimOf(k, call.name) => result = EXERCISE_ALIASES[k]
        /\ (\A k \in DOMAIN EXERCISE_ALIASES : ~IsLowerTrimOf(k, call.name))
               => IsLowerTrimOf(result, call.name)
        /\ call.name = <<"F","l","a","t"," ","B","B"," ","B","e","n","c","h">> => result = <<"b","e","n","c","h"," ","p","r","e","s","s">>
        /\ call.name = <<"u","n","k","n","o","w","n"," ","e","x","e","r","c","i","s","e">> => result = <<"u","n","k","n","o","w","n"," ","e","x","e","r","c","i","s","e">>

C2_Witness ==
    /\ Called("normalize_exercise_name")
    /\ call.name = <<"F","l","a","t"," ","B","B"," ","B","e","n","c","h">>
    /\ result = <<"b","e","n","c","h"," ","p","r","e","s","s">>

OccKey(occ) ==
    LowerTrimmed(occ.exercise.name)

\* C3: calculate_personal_records returns exactly one record per distinct
\* lower-cased trimmed exercise name of the workouts, and the record's
\* max_weight is the maximum weight_lbs over the occurrences of that name.
C3_PersonalRecords ==
    Called("calculate_personal_records") =>
        LET occs == Occurrences(workouts)
            keys == [j \in DOMAIN occs |-> OccKey(occs[j])]
            names == {keys[j] : j \in DOMAIN occs}
        IN  /\ Len(result) = Cardinality(names)
            /\ {result[i].exercise : i \in DOMAIN result} = names
            /\ \A i \in DOMAIN result :
                   /\ \E j \in DOMAIN occs :
                          /\ keys[j] = result[i].exercise
                          /\ occs[j].exercise.weight_lbs = result[i].max_weight
                   /\ \A j \in DOMAIN occs :
                          keys[j] = result[i].exercise
                              => occs[j].exercise.weight_lbs <= result[i].max_weight

C3_Witness ==
    /\ Called("calculate_personal_records")
    /\ Len(result) = 2
    /\ \E j, k \in DOMAIN Occurrences(workouts) :
           LET occs == Occurrences(workouts)
           IN  /\ occs[j].exercise.name # occs[k].exercise.name
               /\ OccKey(occs[j]) = OccKey(occs[k])
               /\ occs[j].exercise.weight_lbs < occs[k].exercise.weight_lbs

\* C4: when several occurrences of a name share the maximum weight, the record
\* carries the reps and the date of the first of them in traversal order
\* (workouts in list order, exercises in order within a workout).
C4_PersonalRecordsFirstSeen ==
    Called("calculate_personal_records") =>
        LET occs == Occurrences(workouts)
            keys == [j \in DOMAIN occs |-> OccKey(occs[j])]
        IN  \A i \in DOMAIN result :
                LET same == {j \in DOMAIN occs : keys[j] = result[i].exercise}
                    best == {j \in same : \A k \in same :
                                occs[k].exercise.weight_lbs <= occs[j].exercise.weight_lbs}
                    first == CHOOSE j \in best : \A k \in best : j <= k
                IN  /\ best # {}
                    /\ result[i].reps = occs[first].exercise.reps
                    /\ result[i].date = date_isoformat(occs[first].workout.date)

C4_Witness ==
    /\ Called("calculate_personal_records")
    /\ \E j, k \in DOMAIN Occurrences(workouts) :
           LET occs == Occurrences(workouts)
           IN  /\ j < k
               /\ OccKey(occs[j]) = OccKey(occs[k])
               /\ occs[j].exercise.weight_lbs = occs[k].exercise.weight_lbs
               /\ occs[j].exercise.reps # occs[k].exercise.reps
               /\ occs[j].workout.date # occs[k].workout.date
               /\ \A m \in DOMAIN occs :
                      OccKey(occs[m]) = OccKey(occs[j])
                          => occs[m].exercise.weight_lbs <= occs[j].exercise.weight_lbs
               /\ \E i \in DOMAIN result :
                      /\ result[i].exercise = OccKey(occs[j])
                      /\ result[i].reps = occs[j].exercise.reps
                      /\ result[i].date = date_isoformat(occs[j].workout.date)

\* the Brzycki estimate of an occurrence, as a fraction
OccE1RM(occ) ==
    IF occ.exercise.reps \in 1..36
    THEN Frac(occ.exercise.weight_lbs * 36, 37 - occ.exercise.reps)
    ELSE Frac(occ.exercise.weight_lbs, 1)

\* the canonical name of an occurrence
OccNormalized(occ) ==
    LET key == LowerTrimmed(occ.exercise.name)
    IN  IF key \in DOMAIN EXERCISE_ALIASES THEN EXERCISE_ALIASES[key] ELSE key

\* the members of S (indices into occs) with the highest estimated 1RM
BestByE1RM(occs, S) ==
    {j \in S : \A k \in S : ~frac_gt(OccE1RM(occs[k]), OccE1RM(occs[j]))}

MinOf(S) ==
    CHOOSE j \in S : \A k \in S : j <= k

\* a record carries the weight, reps and date of an occurrence
RecordIsOf(rec, occ) ==
    /\ rec.weight = occ.exercise.weight_lbs
    /\ rec.reps = occ.exercise.reps
    /\ rec.date = date_isoformat(occ.workout.date)

\* the occurrences that compete for the rep-range record of a name
QualifyingRR(occs, name) ==
    {j \in DOMAIN occs :
        /\ call.min_reps <= occs[j].exercise.reps
        /\ occs[j].exercise.reps <= call.max_reps
        /\ OccNormalized(occs[j]) = name
        /\ call.key_lifts_only => name \in KEY_COMPOUND_LIFTS}

\* C5: calculate_rep_range_records returns one record per normalized name with
\* an occurrence within the rep bounds (a key compound lift when
\* key_lifts_only), and the record carries the weight, reps and date of a
\* qualifying occurrence with the highest estimated 1RM among them.
C5_RepRangeRecords ==
    Called("calculate_rep_range_records") =>
        LET occs == Occurrences(workouts)
            names == {n \in {OccNormalized(occs[j]) : j \in DOMAIN occs} :
                         QualifyingRR(occs, n) # {}}
        IN  /\ Len(result) = Cardinality(names)
            /\ {result[i].exercise : i \in DOMAIN result} = names
            /\ \A i \in DOMAIN result :
                   LET Q == QualifyingRR(occs, result[i].exercise)
                   IN  \E j \in BestByE1RM(occs, Q) : RecordIsOf(result[i], occs[j])

\* C6: when several occurrences competing for a record have exactly equal
\* highest estimated 1RM, the record is the earliest of them (a later one
\* replaces the record only if its estimated 1RM is strictly greater).
C6_TieKeepsEarlier ==
    Called("calculate_rep_range_records") =>
        LET occs == Occurrences(workouts)
        IN  \A i \in DOMAIN result :
                LET Q == QualifyingRR(occs, result[i].exercise)
                    best == BestByE1RM(occs, Q)
                IN  Cardinality(best) > 1 => RecordIsOf(result[i], occs[MinOf(best)])

BandOf(reps) ==
    IF reps \in 1..5 THEN "strength"
    ELSE IF reps \in 6..10 THEN "hypertrophy"
    ELSE IF reps \in 11..20 THEN "endurance"
    ELSE "none"

BandRecord(rec, band) ==
    IF band = "strength" THEN rec.strength_pr
    ELSE IF band = "hypertrophy" THEN rec.hypertrophy_pr
    ELSE rec.endurance_pr

BANDS ==
    {"strength", "hypertrophy", "endurance"}

\* the occurrences of a lift, and those of them in a band
OccsOfLift(occs, lift) ==
    {j \in DOMAIN occs : OccNormalized(occs[j]) = lift}

OccsInBand(occs, lift, band) ==
    {j \in OccsOfLift(occs, lift) : BandOf(occs[j].exercise.reps) = band}

C7_ExampleWorkouts ==
    << LiftingWorkout(D_2024_01_01, <<"l","e","g","s">>, <<Exercise(<<"s","q","u","a","t">>, 225, 5, None)>>),
       LiftingWorkout(D_2024_01_08, <<"l","e","g","s">>, <<Exercise(<<"s","q","u","a","t">>, 235, 3, None)>>) >>

\* C7: in calculate_key_lift_prs each (lift, band) record is an occurrence of
\* that lift with reps in the band (strength 1-5, hypertrophy 6-10, endurance
\* 11-20) that has the highest estimated 1RM among them, and is absent when
\* the band has no occurrence; for squat 225x5 then squat 235x3 the strength
\* record is 225x5, the higher estimate.
C7_KeyLiftBands ==
    Called("calculate_key_lift_prs") =>
        LET occs == Occurrences(workouts)
        IN  /\ \A i \in DOMAIN result : \A band \in BANDS :
                   LET B == OccsInBand(occs, result[i].exercise, band)
                       rec == BandRecord(result[i], band)
                   IN  IF B = {} THEN rec = NoneDict
                       ELSE /\ rec # NoneDict
                            /\ \E j \in BestByE1RM(occs, B) : RecordIsOf(rec, occs[j])
            /\ workouts = C7_ExampleWorkouts =>
                   /\ Len(result) = 1
                   /\ result[1].strength_pr # NoneDict
                   /\ result[1].strength_pr.weight = 225
                   /\ result[1].strength_pr.reps = 5

MaxOfSet(S) ==
    CHOOSE x \in S : \A y \in S : y <= x

\* C8: calculate_key_lift_prs returns exactly one record for every big-three
\* lift with an occurrence in the workouts, whatever its rep counts; its
\* best_estimated_1rm is the maximum over its present band records, 0 if none.
C8_KeyLiftRecords ==
    Called("calculate_key_lift_prs") =>
        LET occs == Occurrences(workouts)
            lifts == {OccNormalized(occs[j]) : j \in DOMAIN occs} \cap BIG_THREE_LIFTS
        IN  /\ Len(result) = Cardinality(lifts)
            /\ {result[i].exercise : i \in DOMAIN result} = lifts
            /\ \A i \in DOMAIN result :
                   LET present == {b \in BANDS : BandRecord(result[i], b) # NoneDict}
                       e1rms == {BandRecord(result[i], b).estimated_1rm : b \in present}
                   IN  result[i].best_estimated_1rm =
                           IF present = {} THEN 0 ELSE MaxOfSet(e1rms)

\* the occurrences of a lift dated within the 14 days before the call
RecentOccs(occs, lift) ==
    {j \in OccsOfLift(occs, lift) :
        /\ date_toordinal(occs[j].workout.date) >= date_toordinal(call.now) - 14
        /\ date_toordinal(occs[j].workout.date) <= date_toordinal(call.now)}

\* C9: for each big-three lift of the workouts, "recent" is an occurrence with
\* the latest date among the lift's occurrences of the last 14 days, and it is
\* absent exactly when the lift has no occurrence in that window.
C9_KeyLiftRecent ==
    Called("calculate_key_lift_prs") =>
        LET occs == Occurrences(workouts)
            lifts == {OccNormalized(occs[j]) : j \in DOMAIN occs} \cap BIG_THREE_LIFTS
        IN  \A lift \in lifts :
                LET W == RecentOccs(occs, lift)
                    latest == {j \in W : \A k \in W :
                                  date_toordinal(occs[k].workout.date)
                                      <= date_toordinal(occs[j].workout.date)}
                    recs == {i \in DOMAIN result : result[i].exercise = lift}
                IN  IF W = {}
                    THEN \A i \in recs : result[i].recent = NoneDict
                    ELSE \E i \in recs :
                             /\ result[i].recent # NoneDict
                             /\ \E j \in latest : RecordIsOf(result[i].recent, occs[j])

\* the category of a lower-cased name: the first of Bench Press, Squat,
\* Deadlift one of whose keywords it contains
CategoryOf(name_lower) ==
    IF \/ str_contains(name_lower, <<"b","e","n","c","h">>)
       \/ str_contains(name_lower, <<"c","h","e","s","t"," ","p","r","e","s","s">>)
       \/ str_contains(name_lower, <<"d","b"," ","p","r","e","s","s">>)
       \/ str_contains(name_lower, <<"f","l","a","t"," ","d","b">>)
    THEN "Bench Press"
    ELSE IF str_contains(name_lower, <<"s","q","u","a","t">>) THEN "Squat"
    ELSE IF str_contains(name_lower, <<"d","e","a","d","l","i","f","t">>) \/ str_contains(name_lower, <<"r","d","l">>)
         THEN "Deadlift"
    ELSE "unmatched"

OccCategory(occ) ==
    CategoryOf(LowerTrimmed(occ.exercise.name))

\* C10: calculate_strength_standards reports, for each category with a match
\* (first match in the order Bench Press, Squat, Deadlift), the occurrence of
\* that category with the highest estimated 1RM, with bw_ratio equal to that
\* estimate divided by the bodyweight and rounded to 2 decimals.
C10_StrengthStandards ==
    (Called("calculate_strength_standards") /\ raised = None) =>
        LET occs == Occurrences(workouts)
            cats == {OccCategory(occs[j]) : j \in DOMAIN occs} \ {"unmatched"}
        IN  /\ Len(result) = Cardinality(cats)
            /\ {result[i].lift : i \in DOMAIN result} = cats
            /\ \A i \in DOMAIN result :
                   LET S == {j \in DOMAIN occs : OccCategory(occs[j]) = result[i].lift}
                   IN  \E j \in BestByE1RM(occs, S) :
                           /\ RecordIsOf(result[i], occs[j])
                           /\ result[i].exercise = occs[j].exercise.name
                           /\ result[i].bw_ratio =
                                  round_half_even(100 * OccE1RM(occs[j]).num,
                                                  OccE1RM(occs[j]).den * call.bodyweight)

(***************************************************************************)
(* Running streaks                                                         *)
(***************************************************************************)
\* the calendar days (ordinals) on which the list has at least one run
RunDays(acts) ==
    {date_toordinal(acts[i].date) : i \in {j \in 1..Len(acts) : acts[j].activity_type = RUN}}

\* the days d, d+1, ..., d+n-1 each have a run
ConsecutiveFrom(days, d, n) ==
    \A k \in 0..(n - 1) : (d + k) \in days

\* the greatest number of consecutive calendar days that each have a run
LongestConsecutive(days) ==
    MaxOfSet({0} \cup {n \in 1..Cardinality(days) :
                          \E d \in days : ConsecutiveFrom(days, d, n)})

\* the length of the run of consecutive days that ends at the last day
ConsecutiveEndingAtLast(days) ==
    LET last == MaxOfSet(days)
    IN  MaxOfSet({n \in 1..Cardinality(days) : ConsecutiveFrom(days, last - n + 1, n)})

\* C11: longest_streak is the maximum number of consecutive calendar days
\* that each contain at least one run (a gap of one day extends, a greater gap
\* resets, runs on the same day do neither).
C11_LongestStreak ==
    Called("calculate_running_streaks")
        => result.longest_streak = LongestConsecutive(RunDays(activities))

\* two runs on one day, a streak of three days and a gap after it
C11_Witness ==
    /\ Called("calculate_running_streaks")
    /\ \A i \in 1..Len(activities) : activities[i].activity_type = RUN
    /\ Len(activities) > Cardinality(RunDays(activities))
    /\ Cardinality(RunDays(activities)) = 3
    /\ result.longest_streak = 2

\* C12: current_streak is 0 when the most recent run date is more than one
\* day before today, and otherwise the length of the run of consecutive
\* calendar days that ends at the most recent run date.
C12_CurrentStreak ==
    (Called("calculate_running_streaks") /\ RunDays(activities) # {})
        => LET days == RunDays(activities)
           IN  result.current_streak =
                   IF date_toordinal(call.now) - MaxOfSet(days) > 1
                   THEN 0
                   ELSE ConsecutiveEndingAtLast(days)

\* a streak of three days that is still alive the day after its last run
C12_Witness ==
    /\ Called("calculate_running_streaks")
    /\ RunDays(activities) # {}
    /\ date_toordinal(call.now) - MaxOfSet(RunDays(activities)) = 1
    /\ result.current_streak = 3

\* the runs of the streak test, in any order, called on 2024-01-11
C13_Example ==
    /\ Called("calculate_running_streaks")
    /\ call.now = Date(2024, 1, 11)
    /\ Len(activities) = 4
    /\ \A i \in 1..4 : activities[i].activity_type = RUN
    /\ {activities[i].date : i \in 1..4}
           = {Date(2024, 1, 1), Date(2024, 1, 2), Date(2024, 1, 3), Date(2024, 1, 10)}

\* C13 as stated: runs on 2024-01-01, 02, 03 and 10 with today 2024-01-11
\* yield longest_streak = 3 and current_streak = 0.
C13_AsStated ==
    C13_Example => (result.longest_streak = 3 /\ result.current_streak = 0)

\* C13 amended: the last run is one day before today, which is not more than
\* one day, so the streak of the last run is kept: longest_streak = 3 and
\* current_streak = 1.
C13_StreakExample ==
    C13_Example => (result.longest_streak = 3 /\ result.current_streak = 1)

C13_Witness ==
    /\ C13_Example
    /\ result.last_run_date = <<"2","0","2","4","-","0","1","-","1","0">>

\* C18 as stated: two evaluations of a calculator on identical inputs return
\* identical results regardless of when they are evaluated.
C18_SameInputsSameResult ==
    [][(/\ call.fn = "calculate_running_streaks"
        /\ call'.fn = "calculate_running_streaks"
        /\ activities' = activities)
           => result' = result]_vars

(***************************************************************************)
(* Pace zones                                                              *)
(***************************************************************************)
\* the positions of the runs with a valid pace: a run, a distance other than
\* zero and a positive pace
ValidPaceRuns(acts) ==
    {i \in 1..Len(acts) : /\ acts[i].activity_type = RUN
                          /\ acts[i].distance_miles.num # 0
                          /\ acts[i].moving_time_seconds > 0}

\* moving time over distance, as a fraction
PaceOf(a) ==
    Frac(a.moving_time_seconds * a.distance_miles.den, a.distance_miles.num)

RECURSIVE SumCounts(_)
SumCounts(zs) ==
    IF zs = <<>> THEN 0 ELSE Head(zs).count + SumCounts(Tail(zs))

ZoneCount(name) ==
    result[CHOOSE k \in 1..Len(result) : result[k].zone = name].count

\* C14: pace-zone assignment is total and exclusive: the five zone counts
\* sum to the number of runs with a valid pace, so every such run is counted
\* once and runs without a valid pace and other activities are not counted.
C14_PaceZonesTotalExclusive ==
    Called("calculate_pace_zones")
        => /\ Len(result) = 5
           /\ \A k \in 1..5 : result[k].count >= 0
           /\ SumCounts(result) = Cardinality(ValidPaceRuns(activities))
           /\ \A i \in ValidPaceRuns(activities) :
                  Cardinality({k \in 1..5 :
                      /\ frac_le(ZONES[k].min, PaceOf(activities[i]))
                      /\ frac_lt(PaceOf(activities[i]), ZONES[k].max)}) = 1

\* valid-pace runs next to a walk and runs without distance or moving time
C14_Witness ==
    /\ Called("calculate_pace_zones")
    /\ Cardinality(ValidPaceRuns(activities)) = 2
    /\ Len(activities) = 4
    /\ \E i \in 1..4 : activities[i].activity_type # RUN
    /\ \E i \in 1..4 : activities[i].activity_type = RUN
                          /\ activities[i].distance_miles.num = 0
    /\ SumCounts(result) = 2

\* the number of valid-pace runs whose pace satisfies the test
CountPace(Test(_)) ==
    Cardinality({i \in ValidPaceRuns(activities) : Test(PaceOf(activities[i]))})

\* C15 as stated: first match in the order easy (pace > 540), steady
\* (480-540), tempo (420-480), threshold (360-420), speed (pace < 360); the
\* easy zone counts only runs with a pace strictly greater than 540 and the
\* speed zone only runs with a pace strictly less than 360.
C15_PaceZoneBounds ==
    Called("calculate_pace_zones")
        => LET easy(p) == p.num > 540 * p.den
               steady(p) == ~easy(p) /\ p.num >= 480 * p.den
               tempo(p) == ~easy(p) /\ ~steady(p) /\ p.num >= 420 * p.den
               threshold(p) == p.num < 420 * p.den /\ p.num >= 360 * p.den
               speed(p) == p.num < 360 * p.den
           IN  /\ ZoneCount(<<"e","a","s","y">>) = CountPace(easy)
               /\ ZoneCount(<<"s","t","e","a","d","y">>) = CountPace(steady)
               /\ ZoneCount(<<"t","e","m","p","o">>) = CountPace(tempo)
               /\ ZoneCount(<<"t","h","r","e","s","h","o","l","d">>) = CountPace(threshold)
               /\ ZoneCount(<<"s","p","e","e","d">>) = CountPace(speed)

(***************************************************************************)
(* Weekly volume trend                                                     *)
(***************************************************************************)
\* the ordinal of the Monday of the week (Monday to Sunday) of a date
MondayOf(d) ==
    date_toordinal(d) - ((date_toordinal(d) + 6) % 7)

\* the weeks the workouts fall in, each named by its Monday
WeeksOf(ws) ==
    {MondayOf(ws[i].date) : i \in 1..Len(ws)}

\* the i-th week in ascending order
NthWeek(ws, i) ==
    CHOOSE m \in WeeksOf(ws) : Cardinality({n \in WeeksOf(ws) : n < m}) = i - 1

RECURSIVE VolumeOfWeek(_, _)
VolumeOfWeek(ws, m) ==
    IF ws = <<>> THEN 0
    ELSE (IF MondayOf(Head(ws).date) = m THEN total_volume(Head(ws).exercises) ELSE 0)
         + VolumeOfWeek(Tail(ws), m)

\* one entry per ISO week in ascending order, each with the volume of its week
OnePerWeekAscending ==
    /\ Len(result) = Cardinality(WeeksOf(workouts))
    /\ \A i \in 1..Len(result) :
           /\ result[i].volume = VolumeOfWeek(workouts, NthWeek(workouts, i))
           /\ result[i].workouts =
                  Cardinality({j \in 1..Len(workouts) :
                                  MondayOf(workouts[j].date) = NthWeek(workouts, i)})
    /\ \A i, j \in 1..Len(result) : i # j => result[i].week # result[j].week

\* the sum of the volumes of entry i and the W-1 entries before it
RECURSIVE WindowSum(_, _)
WindowSum(i, W) ==
    IF W = 0 THEN 0 ELSE result[i].volume + WindowSum(i - 1, W - 1)

\* where the rolling value is absent (no key, or None) and where present
RollingShape(W) ==
    IF Len(result) < W
    THEN \A i \in 1..Len(result) : "rolling_avg" \notin DOMAIN result[i]
    ELSE \A i \in 1..Len(result) :
             /\ "rolling_avg" \in DOMAIN result[i]
             /\ (i < W) <=> (result[i].rolling_avg = NoneDict)

\* r is the integer nearest to s / W, the even one of two equally near
NearestInteger(r, s, W) ==
    LET twice == IF 2 * (r * W - s) >= 0 THEN 2 * (r * W - s) ELSE 2 * (s - r * W)
    IN  twice < W \/ (twice = W /\ r % 2 = 0)

\* C16 as stated: one entry per ISO week in ascending order, no rolling value
\* on the first W-1 entries nor when there are fewer than W weeks, and from
\* entry W on a rolling average equal to the arithmetic mean of the volumes
\* of that entry and the W-1 entries before it.
C16_AsStated ==
    Called("calculate_exercise_volume_trend")
        => LET W == call.window_weeks
           IN  /\ OnePerWeekAscending
               /\ RollingShape(W)
               /\ \A i \in W..Len(result) :
                      Len(result) >= W =>
                          result[i].rolling_avg.num * W
                              = WindowSum(i, W) * result[i].rolling_avg.den

\* C16 amended: as above, with the rolling average equal to the arithmetic
\* mean rounded to the nearest integer (a mean ending in .5 goes to the even
\* neighbour).
C16_VolumeTrend ==
    Called("calculate_exercise_volume_trend")
        => LET W == call.window_weeks
           IN  /\ OnePerWeekAscending
               /\ RollingShape(W)
               /\ \A i \in W..Len(result) :
                      Len(result) >= W =>
                          /\ result[i].rolling_avg.den = 1
                          /\ NearestInteger(result[i].rolling_avg.num,
                                            WindowSum(i, W), W)

\* three weeks, a window of two, and a mean that is not an integer
C16_Witness ==
    /\ Called("calculate_exercise_volume_trend")
    /\ call.window_weeks = 2
    /\ Len(result) = 3
    /\ result[1].rolling_avg = NoneDict
    /\ (result[2].volume + result[3].volume) % 2 = 1

(***************************************************************************)
(* Lifting statistics                                                      *)
(***************************************************************************)
\* the label is the word cardio, each letter in either case
IsCardioLabel(label) ==
    /\ Len(label) = 6
    /\ \A i \in 1..6 : label[i] \in {<<"c","a","r","d","i","o">>[i], <<"C","A","R","D","I","O">>[i]}

\* the positions of the workouts that are kept
Kept(ws) ==
    {i \in 1..Len(ws) : ~IsCardioLabel(ws[i].muscle_groups)}

KeptDays(ws) ==
    {date_toordinal(ws[i].date) : i \in Kept(ws)}

\* the names (lower case, trimmed) of the exercises of the kept workouts
KeptExercises(ws) ==
    UNION {{LowerTrimmed(ws[i].exercises[j].name) : j \in 1..Len(ws[i].exercises)}
              : i \in Kept(ws)}

\* the weights lifted for an exercise in the kept workouts
KeptWeights(ws, name) ==
    UNION {{ws[i].exercises[j].weight_lbs :
               j \in {k \in 1..Len(ws[i].exercises) :
                          LowerTrimmed(ws[i].exercises[k].name) = name}}
              : i \in Kept(ws)}

RECURSIVE SumValues(_)
SumValues(d) ==
    IF d = <<>> THEN 0 ELSE Head(d).value + SumValues(Tail(d))

\* C19: calculate_lifting_stats excludes every workout labelled cardio in any
\* letter case and computes its fields over the others: their number, a
\* distribution summing to it, their minimum and maximum date, and no record
\* of an exercise that occurs only in excluded workouts; when none is left
\* the counts are zero, the distribution empty and both dates the current date.
C19_LiftingStats ==
    Called("calculate_lifting_stats")
        => /\ result.total_workouts = Cardinality(Kept(workouts))
           /\ SumValues(result.workout_distribution) = result.total_workouts
           /\ \A k \in 1..Len(result.personal_records) :
                  /\ result.personal_records[k].exercise \in KeptExercises(workouts)
                  /\ result.personal_records[k].max_weight =
                         MaxOfSet(KeptWeights(workouts, result.personal_records[k].exercise))
           /\ IF Kept(workouts) = {}
              THEN /\ result.total_workouts = 0
                   /\ result.total_volume_lbs = 0
                   /\ result.workout_distribution = <<>>
                   /\ result.date_range_start = call.now
                   /\ result.date_range_end = call.now
              ELSE /\ date_toordinal(result.date_range_start) = MinOf(KeptDays(workouts))
                   /\ date_toordinal(result.date_range_end) = MaxOfSet(KeptDays(workouts))
                   /\ \A i \in Kept(workouts) :
                          dict_has(result.workout_distribution, workouts[i].muscle_groups)

\* a cardio session in capitals that is the earliest workout and lists the
\* heaviest squat, next to two lifting workouts
C19_Witness ==
    /\ Called("calculate_lifting_stats")
    /\ Len(workouts) = 3
    /\ \E i \in 1..3 : /\ workouts[i].muscle_groups = <<"C","a","r","d","i","o">>
                       /\ workouts[i].date = Date(2023, 12, 31)
    /\ result.total_workouts = 2
    /\ result.date_range_start = D_2024_01_08
    /\ result.personal_records # <<>>

(***************************************************************************)
(* Running statistics                                                      *)
(***************************************************************************)
\* "M:SS" of a whole number of seconds
MinSec(s) ==
    decimal(s \div 60) \o <<":">> \o zero_padded(s % 60, 2)

\* the whole seconds of the least pace of the valid-pace runs
FastestWhole(acts) ==
    LET V == ValidPaceRuns(acts)
        f == CHOOSE i \in V : \A j \in V :
                 acts[i].moving_time_seconds * acts[j].distance_miles.num * acts[i].distance_miles.den
                     <= acts[j].moving_time_seconds * acts[i].distance_miles.num * acts[j].distance_miles.den
    IN  PaceOf(acts[f]).num \div PaceOf(acts[f]).den

\* the sum of the paces of the runs at the positions V, as numerator and
\* denominator
RECURSIVE SumPaces(_, _)
SumPaces(acts, V) ==
    IF V = {} THEN Frac(0, 1)
    ELSE LET i == CHOOSE j \in V : TRUE
             rest == SumPaces(acts, V \ {i})
             p == PaceOf(acts[i])
         IN  Frac(p.num * rest.den + rest.num * p.den, p.den * rest.den)

\* the whole seconds of the mean pace of the valid-pace runs
AverageWhole(acts) ==
    LET V == ValidPaceRuns(acts)
        s == SumPaces(acts, V)
    IN  s.num \div (s.den * Cardinality(V))

NoRuns ==
    \A i \in 1..Len(activities) : activities[i].activity_type # RUN

OnlyCardio ==
    \A i \in 1..Len(workouts) : IsCardioLabel(workouts[i].muscle_groups)

\* the calculators that return a list, over the workouts and over the
\* activities
ListCalculatorsOfWorkouts ==
    {"calculate_personal_records", "calculate_rep_range_records",
     "calculate_key_lift_prs", "calculate_strength_standards",
     "calculate_weekly_volume", "calculate_exercise_volume_trend",
     "calculate_exercise_progression", "calculate_volume_by_muscle_group",
     "calculate_accessory_prs", "get_all_exercises"}

ListCalculatorsOfActivities ==
    {"calculate_weekly_mileage", "calculate_monthly_mileage", "extract_locations",
     "calculate_monthly_trends"}

\* the defined result of the other calculators on an empty list
ZeroResult ==
    /\ Called("calculate_running_stats")
           => /\ result.total_runs = 0 /\ result.total_miles = 0
              /\ result.total_time_hours = 0 /\ result.runs_this_month = 0
              /\ result.avg_pace = <<"N","/","A">> /\ result.fastest_pace = <<"N","/","A">>
              /\ result.fastest_run = NoneDict /\ result.longest_run = NoneDict
    /\ Called("calculate_lifting_stats")
           => /\ result.total_workouts = 0 /\ result.total_volume_lbs = 0
              /\ result.workout_distribution = <<>> /\ result.personal_records = <<>>
    /\ Called("calculate_training_frequency")
           => result = [avg_days_between |-> 0, workouts_per_week |-> 0]
    /\ Called("calculate_running_streaks")
           => result = [current_streak |-> 0, longest_streak |-> 0]
    /\ Called("calculate_pace_zones")
           => /\ Len(result) = 5
              /\ \A k \in 1..5 : /\ result[k].count = 0 /\ result[k].miles = 0
                                 /\ result[k].percentage = 0
    /\ Called("calculate_heart_rate_stats") => result = [available |-> FALSE]
    /\ Called("calculate_running_prs") => result = EmptyDict

CalculatorsOfWorkouts ==
    ListCalculatorsOfWorkouts
        \cup {"calculate_lifting_stats", "calculate_training_frequency"}

CalculatorsOfActivities ==
    ListCalculatorsOfActivities
        \cup {"calculate_running_stats", "calculate_running_streaks",
              "calculate_pace_zones", "calculate_heart_rate_stats",
              "calculate_running_prs"}

\* C17: the advanced running report of a list without runs and the advanced
\* lifting report of a list without a non-cardio workout are the empty
\* mapping, and every calculator applied to an empty list returns its zero or
\* empty result; nothing is raised.
C17_EmptyInputs ==
    /\ (Called("calculate_advanced_running_stats") /\ NoRuns)
           => (result = EmptyDict /\ raised = None)
    /\ (Called("calculate_advanced_lifting_stats") /\ OnlyCardio)
           => (result = EmptyDict /\ raised = None)
    /\ ((call.fn \in CalculatorsOfWorkouts /\ workouts = <<>>)
        \/ (call.fn \in CalculatorsOfActivities /\ activities = <<>>))
           => /\ raised = None
              /\ call.fn \in (ListCalculatorsOfWorkouts \cup ListCalculatorsOfActivities)
                     => result = <<>>
              /\ ZeroResult

\* the lifting report of two cardio sessions, one of them with an exercise
C17_Witness ==
    /\ Called("calculate_advanced_lifting_stats")
    /\ Len(workouts) = 2
    /\ OnlyCardio
    /\ \E i \in 1..2 : workouts[i].exercises # <<>>
    /\ result = EmptyDict

(***************************************************************************)
(* Running records                                                         *)
(***************************************************************************)
\* the positions of the runs
RunPositions ==
    {i \in 1..Len(activities) : activities[i].activity_type = RUN}

\* the positions of the runs with a distance other than zero
NonZeroDistanceRuns ==
    {i \in RunPositions : activities[i].distance_miles.num # 0}

\* the positions of the valid-pace runs of 2.8 to 4.0 miles, bounds included
FiveKRuns ==
    {i \in ValidPaceRuns(activities) :
        LET d == activities[i].distance_miles
        IN  28 * d.den <= 10 * d.num /\ d.num <= 4 * d.den}

\* the positions of the runs with a suffer score other than zero
SufferRuns ==
    {i \in RunPositions : /\ activities[i].suffer_score # NoneDict
                          /\ activities[i].suffer_score.num # 0}

\* rec names the activity at position i
PointsTo(rec, i) ==
    /\ rec.name = activities[i].name
    /\ rec.date = date_isoformat(activities[i].date)
    /\ rec.distance_miles = activities[i].distance_miles

\* position i has the least pace of the positions S
LeastPace(i, S) ==
    /\ i \in S
    /\ \A j \in S : frac_le(PaceOf(activities[i]), PaceOf(activities[j]))

\* the record under key is present exactly when S is not empty
PresentIff(key, S) ==
    (key \in DOMAIN result) <=> (S # {})

\* fastest_5k_pace and hardest_effort as the claim has them
FiveKAndEffort ==
    /\ PresentIff("fastest_5k_pace", FiveKRuns)
    /\ FiveKRuns # {} =>
           \E i \in FiveKRuns :
               /\ LeastPace(i, FiveKRuns)
               /\ result.fastest_5k_pace.name = activities[i].name
               /\ result.fastest_5k_pace.actual_distance = activities[i].distance_miles
    /\ PresentIff("hardest_effort", SufferRuns)
    /\ SufferRuns # {} =>
           \E i \in SufferRuns :
               /\ PointsTo(result.hardest_effort, i)
               /\ \A j \in SufferRuns :
                      frac_le(activities[j].suffer_score, activities[i].suffer_score)

\* C21 as stated: fastest_pace points to the run with the minimum pace among
\* the runs with non-zero distance; fastest_5k_pace is present exactly when a
\* valid-pace run has a distance in [2.8, 4.0] and points to the minimum-pace
\* run among those; hardest_effort is present exactly when a run reports a
\* suffer score and points to the run with the highest one; with no runs the
\* result is an empty mapping.
C21_AsStated ==
    Called("calculate_running_prs")
        => IF RunPositions = {} THEN result = EmptyDict
           ELSE /\ NonZeroDistanceRuns # {} =>
                       /\ "fastest_pace" \in DOMAIN result
                       /\ \E i \in NonZeroDistanceRuns :
                              /\ LeastPace(i, NonZeroDistanceRuns)
                              /\ PointsTo(result.fastest_pace, i)
                /\ FiveKAndEffort

\* C21: fastest_pace is present exactly when some run has a distance above
\* zero and a moving time other than zero, and then points to the run with
\* the minimum pace among those runs; fastest_5k_pace is present exactly when
\* such a run has a distance in [2.8, 4.0] and points to the minimum-pace run
\* among those; hardest_effort is present exactly when a run has a suffer score
\* other than zero and points to the run with the highest one; with no runs
\* the result is an empty mapping.
C21_RunningPRs ==
    Called("calculate_running_prs")
        => IF RunPositions = {} THEN result = EmptyDict
           ELSE /\ PresentIff("fastest_pace", ValidPaceRuns(activities))
                /\ ValidPaceRuns(activities) # {} =>
                       \E i \in ValidPaceRuns(activities) :
                           /\ LeastPace(i, ValidPaceRuns(activities))
                           /\ PointsTo(result.fastest_pace, i)
                /\ FiveKAndEffort

\* a run with no moving time listed with slower runs: the fastest pace is that
\* of the 5-mile run, the 5K record that of the 2.8-mile run, and the hardest
\* effort that of the 3-mile run
C21_Witness ==
    /\ Called("calculate_running_prs")
    /\ Len(activities) = 4
    /\ \E i \in RunPositions : activities[i].moving_time_seconds = 0
    /\ {"fastest_pace", "fastest_5k_pace", "hardest_effort"} \subseteq DOMAIN result
    /\ result.fastest_pace.name = <<"T","e","m","p","o">>
    /\ result.fastest_5k_pace.name = <<"S","h","o","r","t">>
    /\ result.hardest_effort.name = <<"P","a","r","k">>

(***************************************************************************)
(* Monthly trends                                                          *)
(***************************************************************************)
\* the calendar months, as <<year, month>>, that contain a run
RunMonths ==
    {<<activities[i].date.year, activities[i].date.month>> : i \in RunPositions}

\* the calendar month immediately before ym
MonthBefore(ym) ==
    IF ym[2] = 1 THEN <<ym[1] - 1, 12>> ELSE <<ym[1], ym[2] - 1>>

\* the sum of the distances of the activities at the positions S
RECURSIVE SumMiles(_)
SumMiles(S) ==
    IF S = {} THEN Frac(0, 1)
    ELSE LET i == CHOOSE j \in S : TRUE
             rest == SumMiles(S \ {i})
             d == activities[i].distance_miles
         IN  Frac(d.num * rest.den + rest.num * d.den, d.den * rest.den)

\* the miles run in the calendar month ym, zero when it has no run
MilesOfMonth(ym) ==
    SumMiles({i \in RunPositions :
                 <<activities[i].date.year, activities[i].date.month>> = ym})

\* the calendar month of entry i of the result
MonthOfEntry(i) ==
    CHOOSE ym \in RunMonths : strftime_Y_m(Date(ym[1], ym[2], 1)) = result[i].month

\* (miles - prior) / prior * 100 rounded to one decimal, as tenths over 10
ChangePct(miles, prior) ==
    Frac(round_half_even(
             (miles.num * prior.den - prior.num * miles.den) * 1000 * prior.den,
             miles.den * prior.den * prior.num), 10)

\* C22: calculate_monthly_trends returns one entry per calendar month that
\* contains a run, in ascending month order; change_pct is null for the first
\* month and whenever the prior month had zero miles, and otherwise is (this
\* month's miles - prior month's miles) / prior month's miles * 100 rounded to
\* one decimal, the prior month being the calendar month immediately before.
C22_MonthlyTrends ==
    Called("calculate_monthly_trends")
        => /\ Len(result) = Cardinality(RunMonths)
           /\ \A i \in 1..Len(result) :
                  \E ym \in RunMonths : strftime_Y_m(Date(ym[1], ym[2], 1)) = result[i].month
           /\ \A i, j \in 1..Len(result) :
                  i < j => LET a == MonthOfEntry(i)
                               b == MonthOfEntry(j)
                           IN  a[1] * 12 + a[2] < b[1] * 12 + b[2]
           /\ \A i \in 1..Len(result) :
                  LET miles == MilesOfMonth(MonthOfEntry(i))
                      prior == MilesOfMonth(MonthBefore(MonthOfEntry(i)))
                  IN  result[i].change_pct =
                          IF i = 1 \/ prior.num = 0 THEN NoneDict
                          ELSE ChangePct(miles, prior)

(***************************************************************************)
(* Training frequency                                                      *)
(***************************************************************************)
\* the days from the earliest to the latest workout
SpanDays ==
    LET days == {date_toordinal(workouts[i].date) : i \in 1..Len(workouts)}
    IN  (CHOOSE d \in days : \A e \in days : e <= d)
            - (CHOOSE d \in days : \A e \in days : d <= e)

\* avg_days_between and workouts_per_week of one workout or more, in tenths
FrequencyOfSome ==
    LET n == Len(workouts)
    IN  IF n = 1
        THEN result.avg_days_between = 0 /\ result.workouts_per_week = 10
        ELSE /\ result.avg_days_between = round_half_even(10 * SpanDays, n - 1)
             /\ result.workouts_per_week =
                    IF SpanDays > 7 THEN round_half_even(10 * 7 * n, SpanDays)
                    ELSE 10 * n

\* C23: for n >= 2 workouts avg_days_between is (last date - first date) /
\* (n - 1) and workouts_per_week is n / max(span_days / 7, 1), each rounded to
\* one decimal; for n = 1 they are 0 and 1; and for every input the result
\* carries per-muscle-group occurrence counts whose values sum to n.
C23_TrainingFrequency ==
    Called("calculate_training_frequency")
        => /\ Len(workouts) >= 1 => FrequencyOfSome
           /\ "muscle_group_frequency" \in DOMAIN result
           /\ SumValues(result.muscle_group_frequency) = Len(workouts)

(***************************************************************************)
(* The ranked lists                                                        *)
(***************************************************************************)
\* no key of the sequence is above the key before it
NonIncreasing(keys) ==
    \A i \in 1..(Len(keys) - 1) : keys[i] >= keys[i + 1]

\* the sum of weight x reps over the workouts labelled exactly label
RECURSIVE VolumeOfLabel(_, _)
VolumeOfLabel(ws, label) ==
    IF ws = <<>> THEN 0
    ELSE (IF Head(ws).muscle_groups = label THEN total_volume(Head(ws).exercises) ELSE 0)
         + VolumeOfLabel(Tail(ws), label)

\* C24: every ranked list is in non-increasing order of its sort key:
\* calculate_personal_records by max_weight, calculate_rep_range_records by
\* estimated_1rm, calculate_key_lift_prs by best_estimated_1rm,
\* calculate_strength_standards by bw_ratio, and
\* calculate_volume_by_muscle_group by the summed volume, which for each label
\* is the sum of total_volume over the workouts with exactly that label.
C24_RankedOutputs ==
    /\ Called("calculate_personal_records")
           => NonIncreasing([i \in 1..Len(result) |-> result[i].max_weight])
    /\ Called("calculate_rep_range_records")
           => NonIncreasing([i \in 1..Len(result) |-> result[i].estimated_1rm])
    /\ Called("calculate_key_lift_prs")
           => NonIncreasing([i \in 1..Len(result) |-> result[i].best_estimated_1rm])
    /\ Called("calculate_strength_standards") /\ raised = None
           => NonIncreasing([i \in 1..Len(result) |-> result[i].bw_ratio])
    /\ Called("calculate_volume_by_muscle_group")
           => /\ NonIncreasing([i \in 1..Len(result) |-> result[i].value])
              /\ {result[i].key : i \in 1..Len(result)}
                     = {workouts[i].muscle_groups : i \in 1..Len(workouts)}
              /\ Len(result) = Cardinality({workouts[i].muscle_groups : i \in 1..Len(workouts)})
              /\ \A i \in 1..Len(result) :
                     result[i].value = VolumeOfLabel(workouts, result[i].key)

\* the label listed first has the least volume and comes last in the result
C24_Witness ==
    /\ Called("calculate_volume_by_muscle_group")
    /\ Len(workouts) = 3
    /\ Len(result) = 3
    /\ result[3].key = workouts[1].muscle_groups
    /\ result[1].key = workouts[3].muscle_groups
    /\ result[1].value > result[2].value
    /\ result[2].value > result[3].value

(***************************************************************************)
(* Accessory lifts                                                         *)
(***************************************************************************)
\* the category of an occurrence: the first of the table one of whose
\* patterns is a substring of the lower-cased name
AccessoryOf(occ) ==
    LET name_lower == str_lower(occ.exercise.name)
        S == {i \in 1..Len(ACCESSORY_LIFTS) :
                 \E p \in ACCESSORY_LIFTS[i].patterns : str_contains(name_lower, p)}
    IN  IF S = {} THEN "unmatched" ELSE ACCESSORY_LIFTS[MinOf(S)].lift

\* the occurrences of a category
AccessoryOccs(occs, category) ==
    {j \in DOMAIN occs : AccessoryOf(occs[j]) = category}

\* the positive workout-level counts of push-ups or pull-ups, and the reps of
\* the exercise entries of that category
AccessoryCounts(occs, category) ==
    LET column(w) == IF category = "push-ups" THEN w.pushups ELSE w.pullups
    IN  {column(workouts[i]).num :
            i \in {k \in 1..Len(workouts) : /\ column(workouts[k]) # NoneDict
                                            /\ column(workouts[k]).num > 0}}
        \cup {occs[j].exercise.reps : j \in AccessoryOccs(occs, category)}

\* the positions of the records of a category in the result
AccessoryRecords(category) ==
    {i \in 1..Len(result) : result[i].lift = category}

\* C25: the output of calculate_accessory_prs has at most one record per
\* accessory category; the reps reported for push-ups (pull-ups) are the
\* maximum over the positive workout-level push-up (pull-up) counts and the
\* reps of the exercise entries of that category; the weighted categories (db
\* press, lat pulldown, helms row) report the matching occurrence with the
\* highest estimated 1RM; an exercise name belongs to the first category in
\* table order one of whose patterns is a substring of the lower-cased name.
C25_AccessoryPRs ==
    Called("calculate_accessory_prs") =>
        LET occs == Occurrences(workouts)
        IN  /\ \A i \in 1..Len(result) :
                   /\ result[i].lift \in {ACCESSORY_LIFTS[k].lift : k \in 1..Len(ACCESSORY_LIFTS)}
                   /\ AccessoryRecords(result[i].lift) = {i}
            /\ \A category \in {"push-ups", "pull-ups"} :
                   /\ (AccessoryRecords(category) # {}) <=> (AccessoryCounts(occs, category) # {})
                   /\ \A i \in AccessoryRecords(category) :
                          result[i].reps = MaxOfSet(AccessoryCounts(occs, category))
            /\ \A category \in {"db press", "lat pulldown", "helms row"} :
                   /\ (AccessoryRecords(category) # {}) <=> (AccessoryOccs(occs, category) # {})
                   /\ \A i \in AccessoryRecords(category) :
                          \E j \in BestByE1RM(occs, AccessoryOccs(occs, category)) :
                              RecordIsOf(result[i], occs[j])

(***************************************************************************)
(* Pace of an activity                                                     *)
(***************************************************************************)
\* C26: pace_seconds and pace_per_mile of an activity are both None exactly
\* when distance_miles is zero; otherwise pace_seconds is moving_time_seconds
\* / distance_miles and pace_per_mile is that value as M:SS, with whole
\* minutes and the truncated seconds padded to two digits (1800 s over 3.0
\* miles gives "10:00").
C26_PaceProperties ==
    Called("pace_per_mile") =>
        LET a == activities[call.index]
            pace == PaceOf(a)
        IN  IF a.distance_miles.num = 0
            THEN result.pace_seconds = NoneDict /\ result.pace_per_mile = None
            ELSE /\ result.pace_seconds # NoneDict
                 /\ result.pace_seconds.num * pace.den = pace.num * result.pace_seconds.den
                 /\ result.pace_per_mile = MinSec(pace.num \div pace.den)
                 /\ (a.moving_time_seconds = 1800 /\ a.distance_miles = Frac(3, 1))
                        => result.pace_per_mile = <<"1","0",":","0","0">>

\* the pace of 1800 s over 3.0 miles, asked for after a run without distance
C26_Witness ==
    /\ Called("pace_per_mile")
    /\ Len(activities) >= 2
    /\ activities[1].distance_miles.num = 0
    /\ call.index = 2
    /\ activities[2].moving_time_seconds = 1800
    /\ activities[2].distance_miles = Frac(3, 1)
    /\ result.pace_per_mile = <<"1","0",":","0","0">>
    /\ result.pace_seconds = Frac(600, 1)

(***************************************************************************)
(* Parsing an exercise                                                     *)
(***************************************************************************)
\* the positions of the commas of s
Commas(s) ==
    {i \in 1..Len(s) : s[i] = ","}

\* the k-th comma-separated field of s, k at most the number of commas + 1
FieldOf(s, k) ==
    LET comma(n) == CHOOSE i \in Commas(s) : Cardinality({j \in Commas(s) : j < i}) = n - 1
        first == IF k = 1 THEN 1 ELSE comma(k - 1) + 1
        last == IF k = Cardinality(Commas(s)) + 1 THEN Len(s) ELSE comma(k) - 1
    IN  SubSeq(s, first, last)

\* nothing but whitespace
Blank(f) ==
    \A i \in 1..Len(f) : f[i] \in WHITESPACE

\* the fields that are numbers, each with its value as numerator and
\* denominator
NumberFields ==
    { <<<<"1","3","5">>, 135, 1>>, <<<<" ","4","2",".","5"," ">>, 85, 2>>, <<<<"-","5">>, -5, 1>>, <<<<".","5">>, 1, 2>>,
      <<<<"1",".">>, 1, 1>>, <<<<"8">>, 8, 1>>, <<<<"7",".","5">>, 15, 2>>,
      <<<<"5">>, 5, 1>>, <<<<" ","1","0"," ">>, 10, 1>>, <<<<"+","3">>, 3, 1>>, <<<<"5",".","0">>, 5, 1>> }

IsNumber(f) ==
    \E row \in NumberFields : row[1] = f

\* a number written without a point
IsInteger(f) ==
    IsNumber(f) /\ \A i \in 1..Len(f) : f[i] # "."

\* the value of a field that is a number, 0 for a blank field
NumberOf(f) ==
    IF Blank(f) THEN Frac(0, 1)
    ELSE LET row == CHOOSE r \in NumberFields : r[1] = f
         IN  Frac(row[2], row[3])

\* the Exercise of a string of three fields or more
ExerciseOf(s) ==
    [name |-> DropTrailingSpace(DropLeadingSpace(FieldOf(s, 1))),
     weight_lbs |-> NumberOf(FieldOf(s, 2)),
     reps |-> NumberOf(FieldOf(s, 3)).num,
     rpe |-> IF Cardinality(Commas(s)) < 3 \/ Blank(FieldOf(s, 4)) THEN NoneDict
             ELSE NumberOf(FieldOf(s, 4))]

\* None, blank, or fewer than three fields
TooShort(s) ==
    s = <<None>> \/ Blank(s) \/ Cardinality(Commas(s)) < 2

\* the RPE field is there and is neither blank nor a number
BadRpe(s) ==
    /\ Cardinality(Commas(s)) >= 3
    /\ ~Blank(FieldOf(s, 4))
    /\ ~IsNumber(FieldOf(s, 4))

\* C27 as stated: Exercise.from_string never raises; it returns None for None,
\* an empty or whitespace-only string, a string with fewer than three
\* comma-separated fields, or one whose weight, reps or RPE field is not
\* numeric; otherwise it returns an Exercise with the trimmed name, the parsed
\* weight and reps (a blank field parsing as 0), and RPE absent when the fourth
\* field is missing or blank.
C27_AsStated ==
    Called("from_string") =>
        LET s == call.exercise_str
        IN  /\ raised = None
            /\ result = IF \/ TooShort(s)
                           \/ ~Blank(FieldOf(s, 2)) /\ ~IsNumber(FieldOf(s, 2))
                           \/ ~Blank(FieldOf(s, 3)) /\ ~IsNumber(FieldOf(s, 3))
                           \/ BadRpe(s)
                        THEN NoneDict
                        ELSE ExerciseOf(s)

\* C27: Exercise.from_string never raises; it returns None for None, an empty
\* or whitespace-only string, a string with fewer than three comma-separated
\* fields, one whose weight or RPE field is neither blank nor a number, or one
\* whose reps field is neither blank nor an integer written without a point;
\* otherwise it returns an Exercise with the trimmed name, the parsed weight
\* and reps (a blank field parsing as 0), and RPE absent when the fourth field
\* is missing or blank.
C27_FromString ==
    Called("from_string") =>
        LET s == call.exercise_str
        IN  /\ raised = None
            /\ result = IF \/ TooShort(s)
                           \/ ~Blank(FieldOf(s, 2)) /\ ~IsNumber(FieldOf(s, 2))
                           \/ ~Blank(FieldOf(s, 3)) /\ ~IsInteger(FieldOf(s, 3))
                           \/ BadRpe(s)
                        THEN NoneDict
                        ELSE ExerciseOf(s)

\* a name and reps padded with spaces, a weight and an RPE
C27_Witness ==
    /\ Called("from_string")
    /\ call.exercise_str = <<" ","B","e","n","c","h"," ","P","r","e","s","s"," ",",","1","3","5",","," ","1","0"," ",",","8">>
    /\ result = [name |-> <<"B","e","n","c","h"," ","P","r","e","s","s">>, weight_lbs |-> Frac(135, 1), reps |-> 10,
                 rpe |-> Frac(8, 1)]

\* C28: no calculator raises for any value of its optional numeric
\* parameters: for every workout list, calculate_exercise_volume_trend returns
\* a list for every integer window_weeks (including 0 and negative values),
\* and calculate_strength_standards returns a list for every bodyweight value
\* (including 0).
C28_OptionalParameters ==
    Called("calculate_exercise_volume_trend") \/ Called("calculate_strength_standards") =>
        /\ raised = None
        /\ result \in Seq({result[i] : i \in DOMAIN result})

\* the non-cardio workouts that record a non-zero bodyweight
WeighedWorkouts ==
    {i \in 1..Len(workouts) :
        /\ str_lower(workouts[i].muscle_groups) # <<"c","a","r","d","i","o">>
        /\ workouts[i].bodyweight_lbs # NoneDict
        /\ workouts[i].bodyweight_lbs.num # 0}

\* the bodyweight of the most recent of them, 180 when there is none
LatestBodyweight ==
    IF WeighedWorkouts = {} THEN 180
    ELSE LET i == CHOOSE i \in WeighedWorkouts :
                      \A j \in WeighedWorkouts :
                          date_toordinal(workouts[j].date) <= date_toordinal(workouts[i].date)
         IN  workouts[i].bodyweight_lbs.num \div workouts[i].bodyweight_lbs.den

\* C29: calculate_advanced_lifting_stats computes strength_standards with the
\* latest bodyweight: the bodyweight of the non-cardio workout with the most
\* recent date among those recording a non-zero bodyweight, for every ordering
\* of the input list, and 180 when no non-cardio workout records one; the
\* bodyweight it passes is never zero.
C29_LatestBodyweight ==
    Called("calculate_advanced_lifting_stats") /\ filter_cardio_workouts(workouts) # <<>> =>
        /\ raised = None
        /\ LatestBodyweight # 0
        /\ result.strength_standards =
               calculate_strength_standards(filter_cardio_workouts(workouts),
                                            LatestBodyweight).value

\* C30: normalize_exercise_name is idempotent over the alias table: no
\* canonical value of the alias table is itself a key mapping to a different
\* name, so normalize(normalize(x)) = normalize(x) for every name x, and
\* is_key_compound_lift(normalize(x)) = is_key_compound_lift(x).
C30_NormalizeIdempotent ==
    Called("normalize_exercise_name") =>
        /\ \A k \in DOMAIN EXERCISE_ALIASES :
               EXERCISE_ALIASES[k] \in DOMAIN EXERCISE_ALIASES
                   => EXERCISE_ALIASES[EXERCISE_ALIASES[k]] = EXERCISE_ALIASES[k]
        /\ normalize_exercise_name(result) = result
        /\ is_key_compound_lift(result) = is_key_compound_lift(call.name)

\* a key compound lift typed in capitals whose canonical name is itself a key
C30_Witness ==
    /\ Called("normalize_exercise_name")
    /\ call.name = str_upper(<<"s","u","m","o"," ","d","e","a","d","l","i","f","t">>)
    /\ result = <<"s","u","m","o"," ","d","e","a","d","l","i","f","t">>
    /\ result \in DOMAIN EXERCISE_ALIASES
    /\ is_key_compound_lift(call.name)
====
